---- MODULE Spec2Model ----
(***************************************************************************)
(* Model of Source/cmQtAutoGeneratorInitializer.cxx: the configure-time    *)
(* planner of AUTOMOC / AUTOUIC / AUTORCC.                                 *)
(*                                                                         *)
(* The planner is sequential.  Its loops are modelled one iteration per    *)
(* step; the body of each iteration is an operator translated from the     *)
(* source, so that the same body serves the step and the whole function.   *)
(***************************************************************************)
EXTENDS Naturals, Sequences, FiniteSets, TLC

VARIABLES
  inp,          \* what the planner reads and never writes: target properties,
                \* policy status, Qt version, import targets, configurations
  srcFiles,     \* the target's source files (cmSourceFile: name and properties)
  setup,        \* AutogenSetup: sources, headers, skip lists, per-config maps
  cfg,          \* SetupAutoGenerateTarget: config, configs, configSuffix
  rcc,          \* the lists SetupAutoTargetRcc collects
  definitions,  \* the makefile definitions AddDefinitionEscaped has set
  infoFile,     \* AutogenInfo.cmake: the lines written, in order
  messages,     \* diagnostics issued: author warnings and errors
  merge,        \* RccMergeOptions: opts, extraOpts and the iterator fit
  gen,          \* InitializeAutogenTarget: its locals and what it registers
                \* with the build graph
  pc,           \* where the planner is
  fileIt,       \* index of the source file the current loop is at
  sourcesCache, \* cmGeneratorTarget: the memoized sources meta data of the
                \* target
  objectLibrary,\* the sources of the OBJECT library whose objects the target
                \* uses, <<>> if it uses none
  passes        \* what each completed planning pass of the target left

vars == <<inp, srcFiles, setup, cfg, rcc, definitions, infoFile, messages,
          merge, gen, pc, fileIt, sourcesCache, objectLibrary, passes>>

(***************************************************************************)
(* Bounds                                                                  *)
(***************************************************************************)
MaxFiles == 2          \* longest source list drawn
MaxOpts == 3           \* longest option list drawn for a merge of two lists
MaxSelfOpts == 4       \* longest option list drawn for a merge with itself

(***************************************************************************)
(* Source files                                                            *)
(***************************************************************************)
\* Names of the source files a target may list.  "l.cpp" is a symbolic link
\* to "a.cpp"; "t.txt" has a format no generator knows.
SourceNames == {"a.cpp", "l.cpp", "b.h", "r.qrc", "t.txt"}

\* cmSourceFile::GetExtension
GetExtension(sf) ==
  CASE sf.name = "b.h"   -> "h"
    [] sf.name = "r.qrc" -> "qrc"
    [] sf.name = "t.txt" -> "txt"
    [] OTHER             -> "cpp"

\* cmSystemTools::GetFileFormat
GetFileFormat(ext) ==
  CASE ext = "cpp" -> "CXX_FILE_FORMAT"
    [] ext = "h"   -> "HEADER_FILE_FORMAT"
    [] OTHER       -> "UNKNOWN_FILE_FORMAT"

\* cmSourceFile::GetFullPath
GetFullPath(sf) == sf.name

\* cmsys::SystemTools::GetRealPath: resolves symbolic links
GetRealPath(path) == IF path = "l.cpp" THEN "a.cpp" ELSE path

\* cmSourceFile::GetPropertyAsBool
GetPropertyAsBool(sf, prop) == prop \in sf.props

(***************************************************************************)
(* SetupAcquireScanFiles                                                   *)
(***************************************************************************)
PolicyStatus == {"WARN", "OLD", "NEW", "REQUIRED_IF_USED", "REQUIRED_ALWAYS"}

\* an empty std::map<std::string, std::string>
EmptyMap == [k \in {} |-> ""]

\* a default-constructed AutogenSetup
EmptySetup ==
  [sources |-> <<>>, headers |-> <<>>, mocSkip |-> <<>>, uicSkip |-> <<>>,
   configSuffix |-> EmptyMap, configMocIncludes |-> EmptyMap,
   configMocDefines |-> EmptyMap, configUicOptions |-> EmptyMap]

\* the AUTHOR_WARNING of policy CMP0071, naming the file
PolicyWarning(absFile) ==
  [type |-> "AUTHOR_WARNING", text |-> "CMP0071: Ignoring GENERATED source file",
   arg |-> absFile]

\* (variant: the SKIP_AUTOGEN flag is forgotten)
ScanMocSkip_OwnFlagOnly(sf) == GetPropertyAsBool(sf, "SKIP_AUTOMOC")

\* const bool mocSkip = skipAll || sf->GetPropertyAsBool("SKIP_AUTOMOC");
ScanMocSkip(sf) ==
  GetPropertyAsBool(sf, "SKIP_AUTOGEN") \/ GetPropertyAsBool(sf, "SKIP_AUTOMOC")

\* const bool uicSkip = skipAll || sf->GetPropertyAsBool("SKIP_AUTOUIC");
ScanUicSkip(sf) ==
  GetPropertyAsBool(sf, "SKIP_AUTOGEN") \/ GetPropertyAsBool(sf, "SKIP_AUTOUIC")

\* (variant: a file is accepted only if no enabled tool skips it)
ScanAccept_NoToolSkips(sf, mocEnabled, uicEnabled) ==
  /\ mocEnabled \/ uicEnabled
  /\ mocEnabled => ~ScanMocSkip(sf)
  /\ uicEnabled => ~ScanUicSkip(sf)

\* const bool accept = (mocEnabled && !mocSkip) || (uicEnabled && !uicSkip);
ScanAccept(sf, mocEnabled, uicEnabled) ==
  (mocEnabled /\ ~ScanMocSkip(sf)) \/ (uicEnabled /\ ~ScanUicSkip(sf))

\* (variant: NEW is treated like OLD)
PolicyAccept_NewIgnored(status) == status \in {"REQUIRED_IF_USED", "REQUIRED_ALWAYS"}

\* the switch on CMP0071_status: policyAccept
PolicyAccept(status) == status \in {"REQUIRED_IF_USED", "REQUIRED_ALWAYS", "NEW"}

\* One iteration of the loop of SetupAcquireScanFiles over source file sf,
\* from the lists s and the diagnostics msgs.
AcquireScanFile(s, msgs, sf, mocEnabled, uicEnabled, status) ==
  LET fileType == GetFileFormat(GetExtension(sf))
      absFile  == GetRealPath(GetFullPath(sf))
      mocSkip  == ScanMocSkip(sf)
      uicSkip  == ScanUicSkip(sf)
      accept   == ScanAccept(sf, mocEnabled, uicEnabled)
      checked  == accept /\ GetPropertyAsBool(sf, "GENERATED")
      warned   == IF checked /\ status = "WARN"
                  THEN Append(msgs, PolicyWarning(absFile)) ELSE msgs
      skipped  == [s EXCEPT
                     !.mocSkip = IF mocSkip THEN Append(@, absFile) ELSE @,
                     !.uicSkip = IF uicSkip THEN Append(@, absFile) ELSE @]
      listed   == IF ~accept THEN skipped
                  ELSE IF fileType = "CXX_FILE_FORMAT"
                       THEN [skipped EXCEPT !.sources = Append(@, absFile)]
                       ELSE [skipped EXCEPT !.headers = Append(@, absFile)]
  IN  IF fileType \notin {"CXX_FILE_FORMAT", "HEADER_FILE_FORMAT"}
      THEN [setup |-> s, messages |-> msgs]                   \* continue
      ELSE IF checked /\ ~PolicyAccept(status)
           THEN [setup |-> s, messages |-> warned]            \* continue
           ELSE [setup |-> listed, messages |-> warned]

(***************************************************************************)
(* Strings and lists                                                       *)
(***************************************************************************)
RECURSIVE cmJoin(_, _)
\* cmJoin(range, delimiter)
cmJoin(v, sep) ==
  IF Len(v) = 0 THEN ""
  ELSE IF Len(v) = 1 THEN v[1]
  ELSE v[1] \o sep \o cmJoin(Tail(v), sep)

\* cmQtAutoGeneratorCommon::listSep
listSep == "@LSEP@"

\* cmOutputConverter::EscapeForCMake, for strings without characters to escape
EscapeForCMake(value) == "\"" \o value \o "\""

\* (variant: never finds the element)
Find_NotFound(v, x) == Len(v) + 1

\* std::find: the index of the first element equal to x, Len(v) + 1 for end()
Find(v, x) ==
  IF \E i \in 1..Len(v) : v[i] = x
  THEN CHOOSE i \in 1..Len(v) : v[i] = x /\ \A j \in 1..(i - 1) : v[j] # x
  ELSE Len(v) + 1

(***************************************************************************)
(* RccMergeOptions                                                         *)
(*                                                                         *)
(* An option token is the sequence of its pieces: each leading dash is a   *)
(* piece "-", the rest of the token is one piece; "--name" is              *)
(* <<"-", "-", "name">> and the value "foo" is <<"foo">>.                  *)
(***************************************************************************)
valueOptions == {<<"name">>, <<"root">>, <<"compress">>, <<"threshold">>}

\* (variant: the second dash is never stripped)
RccOptName_OneDashOnly(tok, isQt5) ==
  IF Len(tok) > 0 /\ Head(tok) = "-" THEN Tail(tok) ELSE tok

\* optName: the token after one leading dash and, for Qt5, a second one
RccOptName(tok, isQt5) ==
  LET one == IF Len(tok) > 0 /\ Head(tok) = "-" THEN Tail(tok) ELSE tok
  IN  IF one # tok /\ isQt5 /\ Len(one) > 0 /\ Head(one) = "-"
      THEN Tail(one) ELSE one

\* (optName != fit->c_str()) && find_if(valueOptions, cmStrCmp(optName))
RccIsValueOption(tok, isQt5) ==
  RccOptName(tok, isQt5) # tok /\ RccOptName(tok, isQt5) \in valueOptions

\* (variant: the file's value is written over the existing option itself)
RccMergeStep_ValueOverOption(m, fileOpts, isQt5) ==
  LET tok        == fileOpts[m.fit]
      existingIt == Find(m.opts, tok)
  IN  IF existingIt <= Len(m.opts)
      THEN IF /\ RccIsValueOption(tok, isQt5)
              /\ existingIt + 1 <= Len(m.opts)
              /\ m.fit + 1 <= Len(fileOpts)
           THEN [m EXCEPT !.opts = [@ EXCEPT ![existingIt] = fileOpts[m.fit + 1]],
                          !.fit  = @ + 2]
           ELSE [m EXCEPT !.fit = @ + 1]
      ELSE [m EXCEPT !.extraOpts = Append(@, tok), !.fit = @ + 1]

\* One iteration of the loop of RccMergeOptions: m.fit is the index into
\* fileOpts, m.opts the target list being updated, m.extraOpts the queue.
RccMergeStep(m, fileOpts, isQt5) ==
  LET tok          == fileOpts[m.fit]
      existingIt   == Find(m.opts, tok)
      existValueIt == existingIt + 1
      fileValueIt  == m.fit + 1
  IN  IF existingIt <= Len(m.opts)
      THEN IF /\ RccIsValueOption(tok, isQt5)
              /\ existValueIt <= Len(m.opts)
              /\ fileValueIt <= Len(fileOpts)
           THEN [m EXCEPT !.opts = [@ EXCEPT ![existValueIt] = fileOpts[fileValueIt]],
                          !.fit  = @ + 2]
           ELSE [m EXCEPT !.fit = @ + 1]
      ELSE [m EXCEPT !.extraOpts = Append(@, tok), !.fit = @ + 1]

RECURSIVE RccMergeLoop(_, _, _)
RccMergeLoop(m, fileOpts, isQt5) ==
  IF m.fit > Len(fileOpts) THEN m
  ELSE RccMergeLoop(RccMergeStep(m, fileOpts, isQt5), fileOpts, isQt5)

\* RccMergeOptions(opts, fileOpts, isQt5): the value opts holds on return
RccMergeOptions(opts, fileOpts, isQt5) ==
  LET m == RccMergeLoop([opts |-> opts, extraOpts |-> <<>>, fit |-> 1],
                        fileOpts, isQt5)
  IN  m.opts \o m.extraOpts

RECURSIVE TokenString(_)
\* the std::string an option token stands for
TokenString(tok) == IF Len(tok) = 0 THEN "" ELSE Head(tok) \o TokenString(Tail(tok))

TokenStrings(toks) == [i \in 1..Len(toks) |-> TokenString(toks[i])]

(***************************************************************************)
(* Configurations and per-configuration settings                           *)
(***************************************************************************)
Range(v) == {v[i] : i \in DOMAIN v}

\* the configuration names in the order std::map iterates them
ConfigLexOrder == <<"", "Debug", "MinSizeRel", "RelWithDebInfo", "Release">>

\* the compile definitions in the order std::set iterates them
DefineLexOrder == <<"QT_A", "QT_B", "QT_C">>

\* the elements of the set S as std::set / std::map iterates them
InOrder(order, S) == SelectSeq(order, LAMBDA x : x \in S)

\* AutogenMultiConfig
AutogenMultiConfig == inp.multiConfig

\* cmMakefile::GetConfigurations: the configurations it appends and the
\* build type it returns
MakefileGetConfigurations ==
  IF inp.multiConfig
  THEN [configs |-> inp.configTypes, ret |-> ""]
  ELSE [configs |-> IF inp.buildType # "" THEN <<inp.buildType>> ELSE <<>>,
        ret |-> inp.buildType]

\* GetConfigurations(makefile, &config)
GetConfigurations ==
  LET r == MakefileGetConfigurations
  IN  [config |-> r.ret,
       configs |-> IF r.configs = <<>> THEN <<"">> ELSE r.configs]

\* (variant: the include directories are joined in sorted order)
GetCompileDefinitionsAndDirectories_SortedIncs(config) ==
  [incs |-> cmJoin(InOrder(<<"/i", "/j", "/k">>, Range(inp.includeDirs[config])), ";"),
   defs |-> cmJoin(InOrder(DefineLexOrder, Range(inp.compileDefs[config])), ";")]

\* GetCompileDefinitionsAndDirectories: incs joins the vector of include
\* directories, defs joins the std::set of compile definitions
GetCompileDefinitionsAndDirectories(config) ==
  [incs |-> cmJoin(inp.includeDirs[config], ";"),
   defs |-> cmJoin(InOrder(DefineLexOrder, Range(inp.compileDefs[config])), ";")]

\* UicGetOpts: joins the vector cmGeneratorTarget::GetAutoUicOptions fills
UicGetOpts(config) == cmJoin(inp.uicOptions[config], ";")

\* the map the loop over configs leaves: an entry for each configuration
\* whose value differs from the default one
ConfigDiff(configs, value, default) ==
  [c \in {k \in Range(configs) : value[k] # default} |-> value[c]]

(***************************************************************************)
(* Makefile definitions and diagnostics                                    *)
(***************************************************************************)
\* AddDefinitionEscaped(makefile, key, value), value a string
AddDefinitionEscaped(d, key, value) ==
  [k \in DOMAIN d \cup {key} |-> IF k = key THEN EscapeForCMake(value) ELSE d[k]]

\* AddDefinitionEscaped(makefile, key, values), values a vector
AddDefinitionEscapedList(d, key, values) ==
  AddDefinitionEscaped(d, key, cmJoin(values, ";"))

\* GetSafeProperty(target, key)
GetSafeProperty(key) ==
  IF key \in DOMAIN inp.properties THEN inp.properties[key] ELSE ""

\* target->GetName()
TargetName == "tgt"

\* cmSystemTools::Error(err + " (" + target->GetName() + ")")
ToolError(err) == [type |-> "ERROR", text |-> err, arg |-> TargetName]

(***************************************************************************)
(* Tool executables                                                        *)
(***************************************************************************)
\* cmLocalGenerator::FindGeneratorTargetToUse(name) != CM_NULLPTR
FindGeneratorTargetToUse(name) == name \in inp.imported

\* SafeString(tgt->ImportedGetLocation(""))
ImportedGetLocation(name) == "/qt/bin/" \o name

\* the "Moc executable" block of SetupAutoTargetMoc
MocExecutable(qtMajorVersion) ==
  IF qtMajorVersion = "5"
  THEN IF FindGeneratorTargetToUse("Qt5::moc")
       THEN [exec |-> ImportedGetLocation("Qt5::moc"), err |-> ""]
       ELSE [exec |-> "", err |-> "AUTOMOC: Qt5::moc target not found"]
  ELSE IF qtMajorVersion = "4"
  THEN IF FindGeneratorTargetToUse("Qt4::moc")
       THEN [exec |-> ImportedGetLocation("Qt4::moc"), err |-> ""]
       ELSE [exec |-> "", err |-> "AUTOMOC: Qt4::moc target not found"]
  ELSE [exec |-> "", err |-> "The AUTOMOC feature supports only Qt 4 and Qt 5"]

\* (variant: a missing Qt5::uic is an error, as for the other tools)
UicExecutable_Qt5Strict(qtMajorVersion) ==
  IF qtMajorVersion = "5"
  THEN IF FindGeneratorTargetToUse("Qt5::uic")
       THEN [exec |-> ImportedGetLocation("Qt5::uic"), err |-> ""]
       ELSE [exec |-> "", err |-> "AUTOUIC: Qt5::uic target not found"]
  ELSE IF qtMajorVersion = "4"
  THEN IF FindGeneratorTargetToUse("Qt4::uic")
       THEN [exec |-> ImportedGetLocation("Qt4::uic"), err |-> ""]
       ELSE [exec |-> "", err |-> "AUTOUIC: Qt4::uic target not found"]
  ELSE [exec |-> "", err |-> "The AUTOUIC feature supports only Qt 4 and Qt 5"]

\* the "Uic executable" block of SetupAutoTargetUic: a missing Qt5::uic
\* leaves uicExec empty and is no error
UicExecutable(qtMajorVersion) ==
  IF qtMajorVersion = "5"
  THEN IF FindGeneratorTargetToUse("Qt5::uic")
       THEN [exec |-> ImportedGetLocation("Qt5::uic"), err |-> ""]
       ELSE [exec |-> "", err |-> ""]
  ELSE IF qtMajorVersion = "4"
  THEN IF FindGeneratorTargetToUse("Qt4::uic")
       THEN [exec |-> ImportedGetLocation("Qt4::uic"), err |-> ""]
       ELSE [exec |-> "", err |-> "AUTOUIC: Qt4::uic target not found"]
  ELSE [exec |-> "", err |-> "The AUTOUIC feature supports only Qt 4 and Qt 5"]

\* RccGetExecutable
RccGetExecutable(qtMajorVersion) ==
  IF qtMajorVersion = "5"
  THEN IF FindGeneratorTargetToUse("Qt5::rcc")
       THEN [exec |-> ImportedGetLocation("Qt5::rcc"), err |-> ""]
       ELSE [exec |-> "", err |-> "AUTORCC: Qt5::rcc target not found"]
  ELSE IF qtMajorVersion = "4"
  THEN IF FindGeneratorTargetToUse("Qt4::rcc")
       THEN [exec |-> ImportedGetLocation("Qt4::rcc"), err |-> ""]
       ELSE [exec |-> "", err |-> "AUTORCC: Qt4::rcc target not found"]
  ELSE [exec |-> "", err |-> "The AUTORCC feature supports only Qt 4 and Qt 5"]

\* cmSystemTools::StringToULong, on the version strings drawn
StringToULong(str) ==
  CASE str = "4" -> 4 [] str = "5" -> 5 [] str = "6" -> 6
    [] str = "8" -> 8 [] str = "9" -> 9 [] OTHER -> 0

\* QtVersionGreaterOrEqual(major, minor, requestMajor, requestMinor)
QtVersionGreaterOrEqual(major, minor, requestMajor, requestMinor) ==
  /\ major \in {"4", "5", "6", "8", "9"}
  /\ minor \in {"4", "5", "6", "8", "9"}
  /\ \/ StringToULong(major) > requestMajor
     \/ StringToULong(major) = requestMajor /\ StringToULong(minor) >= requestMinor

(***************************************************************************)
(* Inputs                                                                  *)
(***************************************************************************)
RECURSIVE SeqsUpTo(_, _)
\* the sequences over S of length at most n
SeqsUpTo(S, n) ==
  IF n = 0 THEN {<<>>}
  ELSE LET shorter == SeqsUpTo(S, n - 1)
       IN  shorter \cup {Append(q, x) : q \in shorter, x \in S}

\* a target with one plain source, Qt5 with every tool imported, one
\* configuration: each specification varies the part it is about
DefaultInput ==
  [AUTOMOC |-> TRUE, AUTOUIC |-> FALSE, AUTORCC |-> FALSE,
   CMP0071 |-> "NEW",
   qtMajorVersion |-> "5", qtMinorVersion |-> "9",
   imported |-> {"Qt5::moc", "Qt5::uic", "Qt5::rcc"},
   multiConfig |-> FALSE, configTypes |-> <<>>, buildType |-> "",
   includeDirs |-> [c \in Range(ConfigLexOrder) |-> <<"/i", "/j">>],
   compileDefs |-> [c \in Range(ConfigLexOrder) |-> <<"QT_A", "QT_B">>],
   uicOptions |-> [c \in Range(ConfigLexOrder) |-> <<"-x", "-y">>],
   properties |-> [k \in {"AUTOMOC_MOC_OPTIONS"} |-> "-nw"],
   relaxedMode |-> FALSE, predefsCommand |-> "cc -dM -E",
   uicSearchPaths |-> <<"forms">>, uiFiles |-> <<>>,
   rccOptionsTarget |-> <<>>,
   fileRccOptions |-> [set |-> FALSE, opts |-> <<>>],
   autogenTargetDepends |-> <<>>, utilities |-> {}, linkLibraries |-> <<>>,
   targets |-> {}, sourceGroup |-> "Generated", folder |-> "",
   rccListOk |-> TRUE,
   configureOk |-> TRUE, infoOpens |-> TRUE, infoWrites |-> TRUE]

NoMerge == [opts |-> <<>>, extraOpts |-> <<>>, fit |-> 1]

\* InitializeAutogenTarget has not run: nothing registered
NoGen ==
  [cleanFiles |-> <<>>, includeDirs |-> <<>>, groupFiles |-> <<>>,
   autogenDependsSet |-> {}, autogenProvides |-> <<>>,
   generatedSources |-> <<>>, qrcSources |-> <<>>, rccCommand |-> "",
   cmakeDependFiles |-> <<>>, listQueries |-> <<>>,
   utilityCommands |-> <<>>, utilities |-> {}]

\* the sources cache of a target nobody has queried, or after
\* ClearSourcesCache
NoCache == [valid |-> FALSE, files |-> <<>>, objects |-> <<>>]

\* the sources meta data cmGeneratorTarget computes for a target: its own
\* source files and the sources of the OBJECT library whose objects it uses
SourcesMetaData(files, library) ==
  [valid |-> TRUE, files |-> files, objects |-> library]

\* target->GetConfigCommonSourceFiles(srcFiles): the memoized meta data if
\* there is one, the computed one otherwise; the call leaves it memoized
GetConfigCommonSourceFiles(cache, files, library) ==
  IF cache.valid THEN cache ELSE SourcesMetaData(files, library)

\* target->ClearSourcesCache()
ClearSourcesCache == NoCache

NoConfig == [config |-> "", configs |-> <<>>, configSuffix |-> EmptyMap]

NoRcc ==
  [rccCommand |-> "", rccFiles |-> <<>>, rccInputs |-> <<>>,
   rccFileFiles |-> <<>>, rccFileOptions |-> <<>>]

(***************************************************************************)
(* SetupAutoGenerateTarget                                                 *)
(***************************************************************************)
RECURSIVE AddDefinitions(_, _)
\* a run of AddDefinitionEscaped calls: kvs is a sequence of <<key, value>>
AddDefinitions(d, kvs) ==
  IF kvs = <<>> THEN d
  ELSE AddDefinitions(AddDefinitionEscaped(d, kvs[1][1], kvs[1][2]), Tail(kvs))

\* GetAutogenTargetBuildDir
GetAutogenTargetBuildDir ==
  IF GetSafeProperty("AUTOGEN_BUILD_DIR") # ""
  THEN GetSafeProperty("AUTOGEN_BUILD_DIR")
  ELSE "/bin/" \o TargetName \o "_autogen"

\* GetAutogenTargetFilesDir
GetAutogenTargetFilesDir == "/bin/CMakeFiles/" \o TargetName \o "_autogen.dir"

\* the tool SetupAutoGenerateTarget sets up after the reflection tool
AfterMoc == IF inp.AUTOUIC THEN "uic" ELSE IF inp.AUTORCC THEN "rcc" ELSE "info"

\* SetupAutoGenerateTarget up to the call of SetupAcquireScanFiles:
\* configurations, configuration suffixes, a fresh AutogenSetup
SetupBegin ==
  /\ pc = "setup"
  /\ cfg' = [config |-> GetConfigurations.config,
             configs |-> GetConfigurations.configs,
             configSuffix |->
               IF AutogenMultiConfig
               THEN [c \in Range(GetConfigurations.configs) |-> "_" \o c]
               ELSE EmptyMap]
  /\ setup' = EmptySetup
  /\ rcc' = NoRcc
  /\ definitions' = EmptyMap
  /\ fileIt' = 1
  /\ sourcesCache' = GetConfigCommonSourceFiles(sourcesCache, srcFiles, objectLibrary)
  /\ pc' = IF inp.AUTOMOC \/ inp.AUTOUIC THEN "scan"
           ELSE IF inp.AUTORCC THEN "rcc" ELSE "info"
  /\ UNCHANGED <<passes, objectLibrary, inp, gen, srcFiles, infoFile, messages, merge>>

\* SetupAcquireScanFiles: one iteration of its loop
AcquireScanFilesStep ==
  /\ pc = "scan"
  /\ fileIt <= Len(sourcesCache.files)
  /\ LET r == AcquireScanFile(setup, messages, sourcesCache.files[fileIt],
                              inp.AUTOMOC, inp.AUTOUIC, inp.CMP0071)
     IN  setup' = r.setup /\ messages' = r.messages
  /\ fileIt' = fileIt + 1
  /\ UNCHANGED <<passes, objectLibrary, sourcesCache, inp, gen, srcFiles, cfg, rcc, definitions, infoFile, merge, pc>>

\* SetupAcquireScanFiles returns
AcquireScanFilesEnd ==
  /\ pc = "scan"
  /\ fileIt > Len(sourcesCache.files)
  /\ pc' = IF inp.AUTOMOC THEN "moc" ELSE "uic"
  /\ UNCHANGED <<passes, objectLibrary, sourcesCache, inp, gen, srcFiles, setup, cfg, rcc, definitions, infoFile,
                 messages, merge, fileIt>>

\* SetupAutoTargetMoc
SetupAutoTargetMoc ==
  /\ pc = "moc"
  /\ LET base == GetCompileDefinitionsAndDirectories(cfg.config)
         exe  == MocExecutable(inp.qtMajorVersion)
         d    == AddDefinitions(definitions,
                   << <<"_moc_skip", cmJoin(setup.mocSkip, ";")>>,
                      <<"_moc_options", GetSafeProperty("AUTOMOC_MOC_OPTIONS")>>,
                      <<"_moc_relaxed_mode", IF inp.relaxedMode THEN "TRUE" ELSE "FALSE">>,
                      <<"_moc_macro_names", GetSafeProperty("AUTOMOC_MACRO_NAMES")>>,
                      <<"_moc_depend_filters", GetSafeProperty("AUTOMOC_DEPEND_FILTERS")>> >>
                   \o (IF QtVersionGreaterOrEqual(inp.qtMajorVersion, inp.qtMinorVersion, 5, 8)
                       THEN << <<"_moc_predefs_cmd", inp.predefsCommand>> >> ELSE <<>>)
                   \o << <<"_moc_incs", base.incs>>,
                         <<"_moc_compile_defs", base.defs>> >>)
     IN  /\ setup' =
              [setup EXCEPT
                 !.configMocIncludes =
                    ConfigDiff(cfg.configs,
                               [c \in Range(cfg.configs) |->
                                  GetCompileDefinitionsAndDirectories(c).incs],
                               base.incs) @@ @,
                 !.configMocDefines =
                    ConfigDiff(cfg.configs,
                               [c \in Range(cfg.configs) |->
                                  GetCompileDefinitionsAndDirectories(c).defs],
                               base.defs) @@ @]
         /\ definitions' = IF exe.err = ""
                           THEN AddDefinitionEscaped(d, "_qt_moc_executable", exe.exec)
                           ELSE d
         /\ messages' = IF exe.err = "" THEN messages
                        ELSE Append(messages, ToolError(exe.err))
  /\ pc' = AfterMoc
  /\ UNCHANGED <<passes, objectLibrary, sourcesCache, inp, gen, srcFiles, cfg, rcc, infoFile, merge, fileIt>>

\* cmSystemTools::CollapseFullPath(path, base), for a relative path
CollapseFullPath(path, base) == base \o "/" \o path

\* SetupAutoTargetUic
SetupAutoTargetUic ==
  /\ pc = "uic"
  /\ LET uicOpts  == UicGetOpts(cfg.config)
         exe      == UicExecutable(inp.qtMajorVersion)
         skipped  == Range(setup.uicSkip)
         kept     == SelectSeq(inp.uiFiles,
                       LAMBDA sf : GetRealPath(GetFullPath(sf)) \notin skipped)
         d        == AddDefinitions(definitions,
                       << <<"_uic_skip", cmJoin(setup.uicSkip, ";")>>,
                          <<"_uic_search_paths",
                            cmJoin([i \in 1..Len(inp.uicSearchPaths) |->
                                      CollapseFullPath(inp.uicSearchPaths[i], "/src")], ";")>>,
                          <<"_uic_target_options", uicOpts>>,
                          <<"_qt_uic_options_files",
                            cmJoin([i \in 1..Len(kept) |->
                                      GetRealPath(GetFullPath(kept[i]))], ";")>>,
                          <<"_qt_uic_options_options",
                            cmJoin([i \in 1..Len(kept) |->
                                      cmJoin(kept[i].options, listSep)], ";")>> >>)
     IN  /\ setup' = [setup EXCEPT
                        !.configUicOptions =
                           ConfigDiff(cfg.configs,
                                      [c \in Range(cfg.configs) |-> UicGetOpts(c)],
                                      uicOpts) @@ @]
         /\ definitions' = IF exe.err = ""
                           THEN AddDefinitionEscaped(d, "_qt_uic_executable", exe.exec)
                           ELSE d
         /\ messages' = IF exe.err = "" THEN messages
                        ELSE Append(messages, ToolError(exe.err))
  /\ pc' = IF inp.AUTORCC THEN "rcc" ELSE "info"
  /\ UNCHANGED <<passes, objectLibrary, sourcesCache, inp, gen, srcFiles, cfg, rcc, infoFile, merge, fileIt>>

\* cmsys::SystemTools::GetRealPath(sf->GetFullPath())
AbsPath(sf) == GetRealPath(GetFullPath(sf))

\* the files a resource-description file lists
QrcEntries(absFile) ==
  IF absFile = "r.qrc" THEN <<"img/r1.png", "img/r2.png">> ELSE <<"img/s1.png">>

\* cmQtAutoGeneratorCommon::RccListInputs(qtMajorVersion, rccCommand,
\* absFile, files, &error): whether it succeeded and the files it listed
RccListInputs(absFile) ==
  IF inp.rccListOk THEN [ok |-> TRUE, files |-> QrcEntries(absFile)]
  ELSE [ok |-> FALSE, files |-> <<>>]

\* cmSystemTools::Error(error) after a failed RccListInputs
ListError(absFile) ==
  [type |-> "ERROR", text |-> "rcc input files could not be listed", arg |-> absFile]

\* (variant: SKIP_AUTOGEN is not tested)
RccAccept_OwnFlagOnly(sf) ==
  /\ GetExtension(sf) = "qrc"
  /\ ~GetPropertyAsBool(sf, "SKIP_AUTORCC")

\* the sf->GetExtension() == "qrc" && !SKIP_AUTOGEN && !SKIP_AUTORCC test of
\* SetupAutoTargetRcc
RccAccept(sf) ==
  /\ GetExtension(sf) = "qrc"
  /\ ~GetPropertyAsBool(sf, "SKIP_AUTOGEN")
  /\ ~GetPropertyAsBool(sf, "SKIP_AUTORCC")

\* One iteration of the loop of SetupAutoTargetRcc over source file sf
SetupRccFile(r, msgs, sf) ==
  LET absFile    == GetRealPath(GetFullPath(sf))
      toList     == ~GetPropertyAsBool(sf, "GENERATED")
      listing    == RccListInputs(absFile)
      entries    == "{" \o (IF toList /\ listing.ok
                            THEN cmJoin(listing.files, listSep) ELSE "") \o "}"
      rccOptions == IF inp.fileRccOptions.set
                    THEN RccMergeOptions(inp.rccOptionsTarget, inp.fileRccOptions.opts,
                                         inp.qtMajorVersion = "5")
                    ELSE inp.rccOptionsTarget
      stored     == rccOptions # <<>>
  IN  IF RccAccept(sf)
      THEN [rcc |-> [r EXCEPT
                       !.rccFiles = Append(@, absFile),
                       !.rccInputs = Append(@, entries),
                       !.rccFileFiles = IF stored THEN Append(@, absFile) ELSE @,
                       !.rccFileOptions =
                          IF stored
                          THEN Append(@, cmJoin(TokenStrings(rccOptions), listSep))
                          ELSE @],
            messages |-> IF toList /\ ~listing.ok
                         THEN Append(msgs, ListError(absFile)) ELSE msgs]
      ELSE [rcc |-> r, messages |-> msgs]

\* SetupAutoTargetRcc up to its loop: RccGetExecutable
SetupAutoTargetRccBegin ==
  /\ pc = "rcc"
  /\ LET exe == RccGetExecutable(inp.qtMajorVersion)
     IN  /\ rcc' = [NoRcc EXCEPT !.rccCommand = exe.exec]
         /\ messages' = IF exe.err = "" THEN messages
                        ELSE Append(messages, ToolError(exe.err))
  /\ fileIt' = 1
  /\ pc' = "rccfiles"
  /\ UNCHANGED <<passes, objectLibrary, sourcesCache, inp, gen, srcFiles, setup, cfg, definitions, infoFile, merge>>

\* SetupAutoTargetRcc: one iteration of its loop
SetupAutoTargetRccStep ==
  /\ pc = "rccfiles"
  /\ fileIt <= Len(sourcesCache.files)
  /\ LET sf == sourcesCache.files[fileIt]
         r  == SetupRccFile(rcc, messages, sf)
     IN  /\ rcc' = r.rcc /\ messages' = r.messages
         /\ gen' = IF RccAccept(sf) /\ ~GetPropertyAsBool(sf, "GENERATED")
                    THEN [gen EXCEPT !.listQueries = Append(@, AbsPath(sf))]
                    ELSE gen
  /\ fileIt' = fileIt + 1
  /\ UNCHANGED <<passes, objectLibrary, sourcesCache, inp, srcFiles, setup, cfg, definitions, infoFile, merge, pc>>

\* SetupAutoTargetRcc after its loop: the definitions
SetupAutoTargetRccEnd ==
  /\ pc = "rccfiles"
  /\ fileIt > Len(sourcesCache.files)
  /\ definitions' = AddDefinitions(definitions,
       << <<"_qt_rcc_executable", rcc.rccCommand>>,
          <<"_rcc_files", cmJoin(rcc.rccFiles, ";")>>,
          <<"_rcc_inputs", cmJoin(rcc.rccInputs, ";")>>,
          <<"_rcc_options_files", cmJoin(rcc.rccFileFiles, ";")>>,
          <<"_rcc_options_options", cmJoin(rcc.rccFileOptions, ";")>> >>)
  /\ pc' = "info"
  /\ UNCHANGED <<passes, objectLibrary, sourcesCache, inp, gen, srcFiles, setup, cfg, rcc, infoFile, messages, merge, fileIt>>

\* Modules/AutogenInfo.cmake.in: the keys it sets and the definitions it
\* takes their values from
InfoTemplate ==
  << <<"AM_BUILD_DIR", "_build_dir">>,
     <<"AM_SOURCES", "_sources">>,
     <<"AM_HEADERS", "_headers">>,
     <<"AM_QT_VERSION_MAJOR", "_qt_version_major">>,
     <<"AM_QT_MOC_EXECUTABLE", "_qt_moc_executable">>,
     <<"AM_QT_UIC_EXECUTABLE", "_qt_uic_executable">>,
     <<"AM_QT_RCC_EXECUTABLE", "_qt_rcc_executable">>,
     <<"AM_MOC_SKIP", "_moc_skip">>,
     <<"AM_MOC_DEFINITIONS", "_moc_compile_defs">>,
     <<"AM_MOC_INCLUDES", "_moc_incs">>,
     <<"AM_MOC_OPTIONS", "_moc_options">>,
     <<"AM_UIC_SKIP", "_uic_skip">>,
     <<"AM_UIC_TARGET_OPTIONS", "_uic_target_options">>,
     <<"AM_RCC_SOURCES", "_rcc_files">>,
     <<"AM_RCC_INPUTS", "_rcc_inputs">>,
     <<"AM_RCC_OPTIONS_FILES", "_rcc_options_files">>,
     <<"AM_RCC_OPTIONS_OPTIONS", "_rcc_options_options">> >>

\* cmMakefile::ConfigureFile on the template: @var@ expands to the
\* definition of var, to nothing when var is not defined
ConfigureFile(d) ==
  [i \in 1..Len(InfoTemplate) |->
     [key |-> InfoTemplate[i][1],
      value |-> IF InfoTemplate[i][2] \in DOMAIN d THEN d[InfoTemplate[i][2]] ELSE ""]]

\* ofs << "set(" << prefix << it->first << " " << EscapeForCMake(it->second)
\* for every entry of a std::map
MapLines(prefix, m) ==
  LET keys == InOrder(ConfigLexOrder, DOMAIN m)
  IN  [i \in 1..Len(keys) |->
         [key |-> prefix \o keys[i], value |-> EscapeForCMake(m[keys[i]])]]

\* (variant: the appendix without the lines of the UI-tool options)
InfoAppendix_NoUicOptions ==
  << [key |-> "#", value |-> "Configuration specific options"] >>
    \o MapLines("AM_CONFIG_SUFFIX_", cfg.configSuffix)
    \o MapLines("AM_MOC_DEFINITIONS_", setup.configMocDefines)
    \o MapLines("AM_MOC_INCLUDES_", setup.configMocIncludes)

\* the lines the "Append custom definitions" block writes
InfoAppendix ==
  << [key |-> "#", value |-> "Configuration specific options"] >>
    \o MapLines("AM_CONFIG_SUFFIX_", cfg.configSuffix)
    \o MapLines("AM_MOC_DEFINITIONS_", setup.configMocDefines)
    \o MapLines("AM_MOC_INCLUDES_", setup.configMocIncludes)
    \o MapLines("AM_UIC_TARGET_OPTIONS_", setup.configUicOptions)

\* what reaches the file of the lines written to the stream: all of them
\* or, when a write fails, those before it (here the first line), the
\* stream ignoring what is written after a failure
StreamWritten(lines) ==
  IF inp.infoWrites THEN lines ELSE SubSeq(lines, 1, 1)

\* the condition of the "Append custom definitions" block
InfoAppends ==
  \/ DOMAIN cfg.configSuffix # {}
  \/ DOMAIN setup.configMocDefines # {}
  \/ DOMAIN setup.configMocIncludes # {}
  \/ DOMAIN setup.configUicOptions # {}

\* cmSystemTools::Error for the info file that could not be opened
InfoOpenError ==
  [type |-> "ERROR", text |-> "Internal CMake error when trying to open file",
   arg |-> GetAutogenTargetFilesDir \o "/AutogenInfo.cmake"]

\* SetupAutoGenerateTarget from the last definitions on: the info file is
\* configured from the template, the appendix is appended, the variable
\* scope is left
WriteInfoFile ==
  /\ pc = "info"
  /\ LET d == AddDefinitions(definitions,
                << <<"_build_dir", GetAutogenTargetBuildDir>>,
                   <<"_qt_version_major", inp.qtMajorVersion>>,
                   <<"_sources", cmJoin(setup.sources, ";")>>,
                   <<"_headers", cmJoin(setup.headers, ";")>> >>)
         configured == IF inp.configureOk THEN ConfigureFile(d) ELSE infoFile
     IN  /\ infoFile' = IF InfoAppends /\ inp.infoOpens
                        THEN configured \o StreamWritten(InfoAppendix)
                        ELSE configured
         /\ messages' = IF InfoAppends /\ ~inp.infoOpens
                        THEN Append(messages, InfoOpenError) ELSE messages
  /\ definitions' = EmptyMap
  /\ pc' = "done"
  /\ UNCHANGED <<passes, objectLibrary, sourcesCache, inp, gen, srcFiles, setup, cfg, rcc, merge, fileIt>>

NextSetup ==
  \/ SetupBegin
  \/ AcquireScanFilesStep
  \/ AcquireScanFilesEnd
  \/ SetupAutoTargetMoc
  \/ SetupAutoTargetUic
  \/ SetupAutoTargetRccBegin
  \/ SetupAutoTargetRccStep
  \/ SetupAutoTargetRccEnd
  \/ WriteInfoFile

(***************************************************************************)
(* InitializeAutogenTarget                                                 *)
(***************************************************************************)
\* GetAutogenTargetName
GetAutogenTargetName == TargetName \o "_autogen"

\* GetConfigurationSuffixes
GetConfigurationSuffixes ==
  LET suffixes == IF AutogenMultiConfig
                  THEN [i \in 1..Len(MakefileGetConfigurations.configs) |->
                          "_" \o MakefileGetConfigurations.configs[i]]
                  ELSE <<>>
  IN  IF suffixes = <<>> THEN <<"">> ELSE suffixes

\* the "Compose target comment" block
AutogenComment ==
  LET toolNames == (IF inp.AUTOMOC THEN <<"MOC">> ELSE <<>>)
                     \o (IF inp.AUTOUIC THEN <<"UIC">> ELSE <<>>)
                     \o (IF inp.AUTORCC THEN <<"RCC">> ELSE <<>>)
      tools == CASE Len(toolNames) = 1 -> toolNames[1]
                 [] Len(toolNames) = 2 -> toolNames[1] \o " and " \o toolNames[2]
                 [] OTHER -> toolNames[1] \o ", " \o toolNames[2]
                               \o " and " \o toolNames[3]
  IN  "Automatic " \o tools \o " for target " \o TargetName

\* cmMakefile::FindTargetToUse(name) != CM_NULLPTR: the targets of the
\* project and the utility targets AddUtilityCommand has created
FindTargetToUse(g, name) ==
  \/ name \in inp.targets
  \/ \E i \in 1..Len(g.utilityCommands) : g.utilityCommands[i].name = name

\* target->Target->GetUtilities(): the utilities the project declared and
\* those AddUtility has inserted
GetUtilities(g) == inp.utilities \cup g.utilities

\* target->AddSource(filename), as the next source query shows it: a file
\* the target lists already is listed once
AddSource(files, sf) ==
  IF \E i \in 1..Len(files) : files[i].name = sf.name THEN files
  ELSE Append(files, sf)

\* (variant: the file is marked GENERATED only)
GeneratedSourceFile_NoSkip(filename) ==
  [name |-> filename, props |-> {"GENERATED"}]

\* the source file AddGeneratedSource creates: GENERATED and SKIP_AUTOGEN set
GeneratedSourceFile(filename) ==
  [name |-> filename, props |-> {"GENERATED", "SKIP_AUTOGEN"}]

\* AddToSourceGroup: the file joins the source group, if one is named
AddToSourceGroup(groupFiles, filename) ==
  IF inp.sourceGroup # ""
  THEN Append(groupFiles, [group |-> inp.sourceGroup, file |-> filename])
  ELSE groupFiles

\* autogenBuildDir + "/mocs_compilation.cpp"
MocsCompilation == GetAutogenTargetBuildDir \o "/mocs_compilation.cpp"

\* cmFilePathChecksum::getPart(absFile)
ChecksumPart(absFile) == "cs_" \o absFile

\* cmsys::SystemTools::GetFilenameWithoutLastExtension
GetFilenameWithoutLastExtension(absFile) ==
  IF absFile = "r.qrc" THEN "r" ELSE absFile

\* the "Compose rcc output file name" block
RccBuildFile(absFile) ==
  GetAutogenTargetBuildDir \o "/" \o ChecksumPart(absFile) \o "/qrc_"
    \o GetFilenameWithoutLastExtension(absFile) \o ".cpp"

\* InitializeAutogenTarget up to its loop over the source files: clean
\* files, the moc compilation file, the include directory, the
\* dependencies the user, the utilities and the link libraries name
InitializeBegin(g, files) ==
  LET filesDir == GetAutogenTargetFilesDir \o "/AutogenOldSettings"
      suffixes == GetConfigurationSuffixes
      includeDir == GetAutogenTargetBuildDir \o "/include"
                      \o (IF AutogenMultiConfig THEN "_$<CONFIG>" ELSE "")
  IN  [gen |->
         [g EXCEPT
            !.cleanFiles = @ \o <<GetAutogenTargetBuildDir>>
                             \o [i \in 1..Len(suffixes) |->
                                   filesDir \o suffixes[i] \o ".cmake"],
            !.autogenProvides = IF inp.AUTOMOC THEN <<MocsCompilation>> ELSE <<>>,
            !.groupFiles = IF inp.AUTOMOC
                           THEN AddToSourceGroup(@, MocsCompilation) ELSE @,
            !.includeDirs = IF inp.AUTOMOC \/ inp.AUTOUIC
                            THEN Append(@, includeDir) ELSE @,
            !.autogenDependsSet =
               Range(inp.autogenTargetDepends)
                 \cup {u \in GetUtilities(g) : FindTargetToUse(g, u)}
                 \cup {l \in Range(inp.linkLibraries) : FindTargetToUse(g, l)},
            !.generatedSources = <<>>,
            !.qrcSources = <<>>,
            !.rccCommand = ""],
       srcFiles |-> IF inp.AUTOMOC
                    THEN AddSource(files, GeneratedSourceFile(MocsCompilation))
                    ELSE files]

InitBegin ==
  /\ pc = "init"
  /\ LET r == InitializeBegin(gen, srcFiles)
     IN  /\ gen' = r.gen /\ srcFiles' = r.srcFiles
         /\ sourcesCache' =
              GetConfigCommonSourceFiles(sourcesCache, r.srcFiles, objectLibrary)
  /\ fileIt' = 1
  /\ pc' = "initfiles"
  /\ UNCHANGED <<passes, objectLibrary, inp, setup, cfg, rcc, definitions, infoFile, messages, merge>>

\* the test of "Register generated files that will be scanned by moc or
\* uic": the generated-file policy is not read
InitGeneratedAccept(sf) ==
  /\ inp.AUTOMOC \/ inp.AUTOUIC
  /\ GetFileFormat(GetExtension(sf)) \in {"CXX_FILE_FORMAT", "HEADER_FILE_FORMAT"}
  /\ GetPropertyAsBool(sf, "GENERATED")
  /\ \/ inp.AUTOMOC /\ ~GetPropertyAsBool(sf, "SKIP_AUTOMOC")
     \/ inp.AUTOUIC /\ ~GetPropertyAsBool(sf, "SKIP_AUTOUIC")

\* the test of "Register rcc enabled files"
InitQrcAccept(sf) ==
  /\ inp.AUTORCC
  /\ GetExtension(sf) = "qrc"
  /\ ~GetPropertyAsBool(sf, "SKIP_AUTORCC")

\* One iteration of the "Extract relevant source files" loop over sf
InitSourceFile(g, sf) ==
  IF GetPropertyAsBool(sf, "SKIP_AUTOGEN") THEN g
  ELSE [g EXCEPT
          !.generatedSources = IF InitGeneratedAccept(sf)
                               THEN Append(@, AbsPath(sf)) ELSE @,
          !.qrcSources = IF InitQrcAccept(sf)
                         THEN Append(@, [file |-> AbsPath(sf),
                                         generated |-> GetPropertyAsBool(sf, "GENERATED")])
                         ELSE @]

\* InitializeAutogenTarget: one iteration of the loop over the source files
InitSourceStep ==
  /\ pc = "initfiles"
  /\ fileIt <= Len(sourcesCache.files)
  /\ gen' = InitSourceFile(gen, sourcesCache.files[fileIt])
  /\ fileIt' = fileIt + 1
  /\ UNCHANGED <<passes, objectLibrary, sourcesCache, inp, srcFiles, setup, cfg, rcc, definitions, infoFile,
                 messages, merge, pc>>

\* (variant: an rcc that cannot be resolved ends the planning of the
\* resource files)
InitializeSourcesEnd_FatalRcc(g, msgs) ==
  LET exe == RccGetExecutable(inp.qtMajorVersion)
      d   == [g EXCEPT !.autogenDependsSet = @ \cup Range(g.generatedSources)]
  IN  IF g.qrcSources # <<>>
      THEN IF exe.err = ""
           THEN [gen |-> [d EXCEPT !.rccCommand = exe.exec], messages |-> msgs]
           ELSE [gen |-> [d EXCEPT !.qrcSources = <<>>],
                 messages |-> Append(msgs, ToolError(exe.err))]
      ELSE [gen |-> d, messages |-> msgs]

\* InitializeAutogenTarget between its two loops: the generated sources
\* join the dependencies, rcc is looked up if there is a qrc file
InitializeSourcesEnd(g, msgs) ==
  LET exe == RccGetExecutable(inp.qtMajorVersion)
      d   == [g EXCEPT !.autogenDependsSet = @ \cup Range(g.generatedSources)]
  IN  IF g.qrcSources # <<>>
      THEN [gen |-> [d EXCEPT !.rccCommand = exe.exec],
            messages |-> IF exe.err = "" THEN msgs
                         ELSE Append(msgs, ToolError(exe.err))]
      ELSE [gen |-> d, messages |-> msgs]

InitSourcesEnd ==
  /\ pc = "initfiles"
  /\ fileIt > Len(sourcesCache.files)
  /\ LET r == InitializeSourcesEnd(gen, messages)
     IN  gen' = r.gen /\ messages' = r.messages
  /\ sourcesCache' = ClearSourcesCache
  /\ fileIt' = 1
  /\ pc' = "initqrc"
  /\ UNCHANGED <<passes, objectLibrary, inp, srcFiles, setup, cfg, rcc, definitions, infoFile, merge>>

\* (variant: the inputs of a generated qrc file are listed as well)
InitQrcFile_ListsGenerated(g, msgs, files, q) ==
  LET listing == RccListInputs(q.file)
  IN  [gen |-> [g EXCEPT
                  !.autogenProvides = Append(@, RccBuildFile(q.file)),
                  !.groupFiles = AddToSourceGroup(@, RccBuildFile(q.file)),
                  !.autogenDependsSet =
                     @ \cup (IF q.generated THEN {q.file} ELSE {})
                       \cup Range(listing.files),
                  !.cmakeDependFiles = IF q.generated THEN @ ELSE Append(@, q.file),
                  !.listQueries = Append(@, q.file)],
       messages |-> IF listing.ok THEN msgs ELSE Append(msgs, ListError(q.file)),
       srcFiles |-> AddSource(files, GeneratedSourceFile(RccBuildFile(q.file)))]

\* One iteration of the loop over qrcSources, q being the pair (absFile,
\* generated)
InitQrcFile(g, msgs, files, q) ==
  LET listing == RccListInputs(q.file)
  IN  [gen |-> [g EXCEPT
                  !.autogenProvides = Append(@, RccBuildFile(q.file)),
                  !.groupFiles = AddToSourceGroup(@, RccBuildFile(q.file)),
                  !.autogenDependsSet =
                     IF q.generated THEN @ \cup {q.file}
                     ELSE @ \cup Range(listing.files),
                  !.cmakeDependFiles = IF q.generated THEN @ ELSE Append(@, q.file),
                  !.listQueries = IF q.generated THEN @ ELSE Append(@, q.file)],
       messages |-> IF q.generated \/ listing.ok THEN msgs
                    ELSE Append(msgs, ListError(q.file)),
       srcFiles |-> AddSource(files, GeneratedSourceFile(RccBuildFile(q.file)))]

\* InitializeAutogenTarget: one iteration of the loop over qrcSources
InitQrcStep ==
  /\ pc = "initqrc"
  /\ fileIt <= Len(gen.qrcSources)
  /\ LET r == InitQrcFile(gen, messages, srcFiles, gen.qrcSources[fileIt])
     IN  gen' = r.gen /\ messages' = r.messages /\ srcFiles' = r.srcFiles
  /\ fileIt' = fileIt + 1
  /\ UNCHANGED <<passes, objectLibrary, sourcesCache, inp, setup, cfg, rcc, definitions, infoFile, merge, pc>>

\* InitializeAutogenTarget after its loops: the utility target with its
\* byproducts and dependencies, and the dependency of the origin target on
\* it (the branch taken outside Visual Studio)
InitializeEnd(g) ==
  [g EXCEPT
     !.utilityCommands =
        Append(@, [name |-> GetAutogenTargetName,
                   workingDirectory |-> "/bin",
                   byproducts |-> g.autogenProvides,
                   depends |-> g.autogenDependsSet,
                   comment |-> AutogenComment,
                   folder |-> inp.folder]),
     !.utilities = @ \cup {GetAutogenTargetName}]

InitEnd ==
  /\ pc = "initqrc"
  /\ fileIt > Len(gen.qrcSources)
  /\ gen' = InitializeEnd(gen)
  /\ pc' = "setup"
  /\ UNCHANGED <<passes, objectLibrary, sourcesCache, inp, srcFiles, setup, cfg, rcc, definitions, infoFile,
                 messages, merge, fileIt>>

NextInitialize ==
  \/ InitBegin
  \/ InitSourceStep
  \/ InitSourcesEnd
  \/ InitQrcStep
  \/ InitEnd

RECURSIVE InitSourceLoop(_, _, _)
\* the loop over the source files, from file i on
InitSourceLoop(g, files, i) ==
  IF i > Len(files) THEN g
  ELSE InitSourceLoop(InitSourceFile(g, files[i]), files, i + 1)

RECURSIVE InitQrcLoop(_, _)
\* the loop over qrcSources, from pair i on; r holds gen, messages, srcFiles
InitQrcLoop(r, i) ==
  IF i > Len(r.gen.qrcSources) THEN r
  ELSE InitQrcLoop(InitQrcFile(r.gen, r.messages, r.srcFiles, r.gen.qrcSources[i]),
                   i + 1)

\* InitializeAutogenTarget has run on a target with source list files
Initialized(files) ==
  \E begun \in {InitializeBegin(NoGen, files)} :
    \E looped \in {InitSourceLoop(begun.gen, begun.srcFiles, 1)} :
      \E scanned \in {InitializeSourcesEnd(looped, <<>>)} :
        \E done \in {InitQrcLoop([gen |-> scanned.gen,
                                  messages |-> scanned.messages,
                                  srcFiles |-> begun.srcFiles], 1)} :
          /\ gen = InitializeEnd(done.gen)
          /\ messages = done.messages
          /\ srcFiles = done.srcFiles

(***************************************************************************)
(* RccMergeOptions, step by step                                           *)
(***************************************************************************)
MergeFileOpts == inp.fileRccOptions.opts
MergeIsQt5 == inp.qtMajorVersion = "5"

\* for (fit = fileOpts.begin(); fit != fileOpts.end(); ++fit) { ... }
RccMergeIterate ==
  /\ pc = "merge"
  /\ merge.fit <= Len(MergeFileOpts)
  /\ merge' = RccMergeStep(merge, MergeFileOpts, MergeIsQt5)
  /\ UNCHANGED <<passes, objectLibrary, sourcesCache, inp, gen, srcFiles, setup, cfg, rcc, definitions, infoFile,
                 messages, pc, fileIt>>

\* opts.insert(opts.end(), extraOpts.begin(), extraOpts.end());
RccMergeReturn ==
  /\ pc = "merge"
  /\ merge.fit > Len(MergeFileOpts)
  /\ merge' = [merge EXCEPT !.opts = @ \o merge.extraOpts]
  /\ pc' = "merged"
  /\ UNCHANGED <<passes, objectLibrary, sourcesCache, inp, gen, srcFiles, setup, cfg, rcc, definitions, infoFile,
                 messages, fileIt>>

\* the option tokens drawn: a value option with one dash and with two, a
\* second value option, and a plain value
MergeTokens == {<<"-", "name">>, <<"-", "-", "name">>, <<"-", "root">>, <<"v">>}

ExampleTarget == << <<"-", "-", "name">>, <<"foo">>, <<"-", "-", "verbose">> >>
ExampleFile ==
  << <<"-", "-", "name">>, <<"bar">>, <<"-", "-", "root">>, <<"/r">> >>

\* a pair in which the file-level list gives as a value the option it
\* gives next
ChainTarget == << <<"-", "name">>, <<"v">>, <<"v">> >>
ChainFile ==
  << <<"-", "name">>, <<"-", "root">>, <<"-", "root">>, <<"-", "name">> >>

MergePairs ==
  {<<t, f>> : t \in SeqsUpTo(MergeTokens, MaxOpts), f \in SeqsUpTo(MergeTokens, MaxOpts)}
    \cup {<<l, l>> : l \in SeqsUpTo(MergeTokens, MaxSelfOpts)}
    \cup {<<ExampleTarget, ExampleFile>>, <<ChainTarget, ChainFile>>}

InitMerge ==
  /\ \E p \in MergePairs, v \in {"4", "5"} :
       inp = [DefaultInput EXCEPT !.AUTORCC = TRUE,
                                  !.qtMajorVersion = v,
                                  !.rccOptionsTarget = p[1],
                                  !.fileRccOptions = [set |-> TRUE, opts |-> p[2]]]
  /\ merge = [opts |-> inp.rccOptionsTarget, extraOpts |-> <<>>, fit |-> 1]
  /\ srcFiles = <<>>
  /\ setup = EmptySetup
  /\ cfg = NoConfig
  /\ rcc = NoRcc
  /\ definitions = EmptyMap
  /\ infoFile = <<>>
  /\ messages = <<>>
  /\ gen = NoGen
  /\ pc = "merge"
  /\ fileIt = 1
  /\ sourcesCache = NoCache
  /\ objectLibrary = <<>>
  /\ passes = <<>>

NextMerge == RccMergeIterate \/ RccMergeReturn

SpecMerge == InitMerge /\ [][NextMerge]_vars

(***************************************************************************)
(* Claims about RccMergeOptions (SpecMerge)                                *)
(***************************************************************************)
\* a value-bearing option written with one dash or with two
DashedValueOptions ==
  {<<"-">> \o n : n \in valueOptions} \cup {<<"-", "-">> \o n : n \in valueOptions}

\* the spellings rcc of the given generation takes as a value option:
\* -opt for both, --opt for Qt5 only
RecognisedValueOption(tok, isQt5) ==
  \/ tok \in {<<"-">> \o n : n \in valueOptions}
  \/ isQt5 /\ tok \in {<<"-", "-">> \o n : n \in valueOptions}

ExampleMerged ==
  << <<"-", "-", "name">>, <<"bar">>, <<"-", "-", "verbose">>,
     <<"-", "-", "root">>, <<"/r">> >>

ExampleMergedQt4 ==
  << <<"-", "-", "name">>, <<"foo">>, <<"-", "-", "verbose">>,
     <<"bar">>, <<"-", "-", "root">>, <<"/r">> >>

MergeOfExample ==
  pc = "merged" /\ inp.rccOptionsTarget = ExampleTarget /\ MergeFileOpts = ExampleFile

\* the tokens the merge appended after the target-level list
MergeAppended ==
  SubSeq(merge.opts, Len(inp.rccOptionsTarget) + 1, Len(merge.opts))

\* a list as rcc expects it: no token twice, and every dashed value option
\* followed by a token that is not one
WellPaired(l) ==
  /\ \A i, k \in 1..Len(l) : l[i] = l[k] => i = k
  /\ \A i \in 1..Len(l) :
       l[i] \in DashedValueOptions => (i < Len(l) /\ l[i + 1] \notin DashedValueOptions)

C5_AsStated ==
  (pc = "merged" /\ inp.rccOptionsTarget = MergeFileOpts)
    => merge.opts = MergeFileOpts

\* every occurrence of a value option of the generation is followed by the
\* same token
SameValueAtEveryOccurrence(l, isQt5) ==
  \A i, k \in 1..(Len(l) - 1) :
    (l[i] = l[k] /\ RecognisedValueOption(l[i], isQt5)) => l[i + 1] = l[k + 1]

\* C5 (amended): merging a list with itself yields that list, provided no
\* value option of the generation is followed by different tokens at two of
\* its occurrences (in particular when every such option occurs once).
C5_SelfMergeIdempotent ==
  (pc = "merged" /\ inp.rccOptionsTarget = MergeFileOpts
     /\ SameValueAtEveryOccurrence(MergeFileOpts, MergeIsQt5))
    => merge.opts = MergeFileOpts

\* C5 witness: a list holding a value option twice with the same value has
\* been merged with itself and is unchanged
C5_Witness ==
  /\ pc = "merged"
  /\ inp.rccOptionsTarget = MergeFileOpts
  /\ MergeFileOpts = << <<"-", "name">>, <<"v">>, <<"-", "name">>, <<"v">> >>
  /\ merge.opts = MergeFileOpts


\* every dashed value option of the list is directly followed by a token
\* that is not one
Paired(l) ==
  \A i \in 1..Len(l) :
    l[i] \in DashedValueOptions => (i < Len(l) /\ l[i + 1] \notin DashedValueOptions)

\* C17 as stated: a value-bearing option of the file-level list that does
\* not occur in the target-level list is appended together with its value
\* token, adjacent and in that order, also when the value's text occurs in
\* the target-level list; and if in both input lists every value option is
\* directly followed by its value, so it is in the merged list.
C17_AsStated ==
  pc = "merged" =>
    /\ \A i \in 1..(Len(MergeFileOpts) - 1) :
         (/\ RecognisedValueOption(MergeFileOpts[i], MergeIsQt5)
          /\ MergeFileOpts[i + 1] \notin DashedValueOptions
          /\ \A j \in 1..Len(inp.rccOptionsTarget) :
               inp.rccOptionsTarget[j] # MergeFileOpts[i])
         => \E k \in 1..(Len(MergeAppended) - 1) :
              /\ MergeAppended[k] = MergeFileOpts[i]
              /\ MergeAppended[k + 1] = MergeFileOpts[i + 1]
    /\ (Paired(inp.rccOptionsTarget) /\ Paired(MergeFileOpts)) => Paired(merge.opts)

RECURSIVE IsSubsequence(_, _)
\* the tokens of a occur in b in the same relative order
IsSubsequence(a, b) ==
  IF Len(a) = 0 THEN TRUE
  ELSE IF Len(b) = 0 THEN FALSE
  ELSE IF Head(a) = Head(b) THEN IsSubsequence(Tail(a), Tail(b))
  ELSE IsSubsequence(a, Tail(b))

\* slot i of the target-level list directly follows a value-bearing option
\* that the file-level list gives too, with a value after it
SharedValueSlot(i) ==
  /\ i > 1
  /\ RecognisedValueOption(inp.rccOptionsTarget[i - 1], MergeIsQt5)
  /\ \E k \in 1..(Len(MergeFileOpts) - 1) :
       /\ MergeFileOpts[k] = inp.rccOptionsTarget[i - 1]
       /\ MergeFileOpts[k + 1] = merge.opts[i]

\* the merged list is the target-level list, same length and order and
\* changed only in shared value slots, then file-level tokens in file order
MergeFrame ==
  /\ Len(merge.opts) >= Len(inp.rccOptionsTarget)
  /\ \A i \in 1..Len(inp.rccOptionsTarget) :
       merge.opts[i] # inp.rccOptionsTarget[i] => SharedValueSlot(i)
  /\ IsSubsequence(MergeAppended, MergeFileOpts)

\* the target-level list as the merge has updated it
MergeUpdatedTarget == SubSeq(merge.opts, 1, Len(inp.rccOptionsTarget))

\* C18 as stated: the merged list is the target-level list, unchanged in
\* length and order and changed at most in the value slots that directly
\* follow a shared value-bearing option, followed by the appended file-level
\* tokens in file order; and a file-level token that already occurs in the
\* target-level list is never appended.
C18_AsStated ==
  pc = "merged" =>
    /\ MergeFrame
    /\ \A k \in 1..Len(MergeAppended) :
         \A j \in 1..Len(inp.rccOptionsTarget) :
           MergeAppended[k] # inp.rccOptionsTarget[j]

\* the token at the iterator occurs in the target-level list as the merge
\* has updated it so far
MergeTokenFound ==
  \E j \in 1..Len(merge.opts) : merge.opts[j] = MergeFileOpts[merge.fit]

\* an iteration keeps the length of the list and changes at most the slot
\* directly after the first occurrence of its token, a value-bearing option, to
\* the file-level token after it; it appends its token exactly when the
\* token does not occur in the list as updated so far, and then changes
\* nothing of the list
MergeStepFrame ==
  (pc = "merge" /\ merge.fit <= Len(MergeFileOpts)) =>
    /\ Len(merge'.opts) = Len(merge.opts)
    /\ \A i \in 1..Len(merge.opts) :
         merge'.opts[i] # merge.opts[i] =>
           /\ i > 1
           /\ merge.opts[i - 1] = MergeFileOpts[merge.fit]
           /\ \A j \in 1..(i - 2) : merge.opts[j] # MergeFileOpts[merge.fit]
           /\ RecognisedValueOption(MergeFileOpts[merge.fit], MergeIsQt5)
           /\ merge.fit < Len(MergeFileOpts)
           /\ merge'.opts[i] = MergeFileOpts[merge.fit + 1]
    /\ IF MergeTokenFound
       THEN merge'.extraOpts = merge.extraOpts
       ELSE /\ merge'.extraOpts = Append(merge.extraOpts, MergeFileOpts[merge.fit])
            /\ merge'.opts = merge.opts

\* the merged list has the target-level list's length plus the appended
\* tokens, which are file-level tokens in file order
MergeAppendedInOrder ==
  /\ Len(merge.opts) = Len(inp.rccOptionsTarget) + Len(merge.extraOpts)
  /\ MergeAppended = merge.extraOpts
  /\ IsSubsequence(MergeAppended, MergeFileOpts)

\* C18, amended: the merged list is the target-level list, unchanged in
\* length and order, followed by the appended file-level tokens in file
\* order; each iteration changes at most the slot that directly follows the
\* first occurrence of its token, a value-bearing option, in the list as updated
\* so far (the option may itself have been written there as a value), and
\* appends its token exactly when the token does not occur in the list as
\* updated so far (a token of the list as given is appended after its slot
\* was overwritten).
C18_MergeFrame ==
  /\ [](pc = "merged" => MergeAppendedInOrder)
  /\ [][MergeStepFrame]_vars

\* a value slot was overwritten, tokens were appended, and one of them is
\* the token the overwritten slot held
C18_Witness ==
  /\ pc = "merged"
  /\ MergeUpdatedTarget # inp.rccOptionsTarget
  /\ \E k \in 1..Len(MergeAppended) :
       \E j \in 1..Len(inp.rccOptionsTarget) :
         MergeAppended[k] = inp.rccOptionsTarget[j]

(***************************************************************************)
(* The planning of one target over every source list: SpecScan             *)
(***************************************************************************)
\* the properties a project sets on a source file of each kind
SourceProps(name) ==
  CASE name \in {"a.cpp", "b.h"} ->
         SUBSET {"SKIP_AUTOGEN", "SKIP_AUTOMOC", "SKIP_AUTOUIC", "GENERATED"}
    [] name = "l.cpp" -> SUBSET {"SKIP_AUTOGEN"}
    [] name = "r.qrc" -> SUBSET {"SKIP_AUTOGEN", "SKIP_AUTORCC"}
    [] OTHER -> SUBSET {"SKIP_AUTOGEN"}

NameOrder == <<"a.cpp", "b.h", "l.cpp", "r.qrc", "t.txt">>

\* the lists that give each of the names, in order, one of its property sets
RECURSIVE PropLists(_, _)
PropLists(names, props) ==
  IF names = <<>> THEN {<<>>}
  ELSE LET k == Len(names)
       IN  { Append(l, [name |-> names[k], props |-> p]) :
               l \in PropLists(SubSeq(names, 1, k - 1), props),
               p \in props[names[k]] }

\* target->GetConfigCommonSourceFiles(srcFiles): the source lists of at
\* most n files
SourceLists(n, props) ==
  UNION { PropLists(InOrder(NameOrder, N), props)
        : N \in { M \in SUBSET SourceNames : Cardinality(M) <= n } }

\* the source lists of at most n files the classifier is run on
ScanSourceLists(n) ==
  SourceLists(n, [name \in SourceNames |-> SourceProps(name)])

Tools == {"AUTOMOC", "AUTOUIC", "AUTORCC"}

InitScan ==
  /\ \E files \in ScanSourceLists(MaxFiles), on \in (SUBSET Tools) \ {{}},
        status \in PolicyStatus :
       /\ inp = [DefaultInput EXCEPT !.AUTOMOC = "AUTOMOC" \in on,
                                     !.AUTOUIC = "AUTOUIC" \in on,
                                     !.AUTORCC = "AUTORCC" \in on,
                                     !.CMP0071 = status]
       /\ Initialized(files)
  /\ setup = EmptySetup
  /\ cfg = NoConfig
  /\ rcc = NoRcc
  /\ definitions = EmptyMap
  /\ infoFile = <<>>
  /\ merge = NoMerge
  /\ pc = "setup"
  /\ fileIt = 1
  /\ sourcesCache = NoCache
  /\ objectLibrary = <<>>
  /\ passes = <<>>

SpecScan == InitScan /\ [][NextSetup]_vars

(***************************************************************************)
(* Properties of the source classifier                                     *)
(***************************************************************************)
IsScanFormat(sf) ==
  GetFileFormat(GetExtension(sf)) \in {"CXX_FILE_FORMAT", "HEADER_FILE_FORMAT"}

SkipAll(sf) == GetPropertyAsBool(sf, "SKIP_AUTOGEN")

\* the planning is over and the classifier has run in it
Classified == pc = "done" /\ (inp.AUTOMOC \/ inp.AUTOUIC)

Eligible == Range(setup.sources) \cup Range(setup.headers) \cup Range(rcc.rccFiles)

\* C1 as stated: every file flagged "skip all" is in neither bucket nor in
\* the resource-eligible list, and is in both skip lists.
C1_AsStated ==
  Classified =>
    \A i \in 1..Len(srcFiles) :
      SkipAll(srcFiles[i]) =>
        /\ AbsPath(srcFiles[i]) \notin Eligible
        /\ AbsPath(srcFiles[i]) \in Range(setup.mocSkip)
        /\ AbsPath(srcFiles[i]) \in Range(setup.uicSkip)

\* C1, amended: a code or header file flagged "skip all" is in both skip
\* lists; no file flagged "skip all", of any kind, is in a bucket or in the
\* resource-eligible list unless another source entry without the flag
\* resolves to the same canonical path.
C1_SkipAllExcluded ==
  /\ Classified =>
       \A i \in 1..Len(srcFiles) :
         (SkipAll(srcFiles[i]) /\ IsScanFormat(srcFiles[i])) =>
           /\ AbsPath(srcFiles[i]) \in Range(setup.mocSkip)
           /\ AbsPath(srcFiles[i]) \in Range(setup.uicSkip)
  /\ pc = "done" =>
       \A i \in 1..Len(srcFiles) :
         (SkipAll(srcFiles[i]) /\ AbsPath(srcFiles[i]) \in Eligible) =>
           \E j \in 1..Len(srcFiles) :
             /\ j # i
             /\ ~SkipAll(srcFiles[j])
             /\ AbsPath(srcFiles[j]) = AbsPath(srcFiles[i])

\* a code file flagged "skip all" next to an unflagged one, both tools on:
\* the flagged one is in both skip lists, the other in the sources bucket
C1_Witness ==
  /\ Classified /\ inp.AUTOMOC /\ inp.AUTOUIC
  /\ \E i \in 1..Len(srcFiles) :
       /\ srcFiles[i].name = "a.cpp" /\ SkipAll(srcFiles[i])
       /\ "a.cpp" \in Range(setup.mocSkip) \cap Range(setup.uicSkip)
       /\ "a.cpp" \notin Eligible
  /\ setup.headers = <<"b.h">>

PolicyProcesses == {"NEW", "REQUIRED_IF_USED", "REQUIRED_ALWAYS"}

\* the classifier's step over a code or header file that is eligible and
\* marked generated
EligibleGenerated(sf) ==
  /\ IsScanFormat(sf)
  /\ ScanAccept(sf, inp.AUTOMOC, inp.AUTOUIC)
  /\ GetPropertyAsBool(sf, "GENERATED")

\* what the step over file sf added to the sources and headers buckets
BucketsGain(sf) ==
  IF GetFileFormat(GetExtension(sf)) = "CXX_FILE_FORMAT"
  THEN /\ setup'.sources = Append(setup.sources, AbsPath(sf))
       /\ setup'.headers = setup.headers
  ELSE /\ setup'.headers = Append(setup.headers, AbsPath(sf))
       /\ setup'.sources = setup.sources

BucketsKept == setup'.sources = setup.sources /\ setup'.headers = setup.headers

\* C2: every classifier step over an eligible generated code/header file
\* puts it in its bucket without a message under NEW and REQUIRED, puts it
\* in no bucket without a message under OLD, and puts it in no bucket with
\* exactly one warning naming it under WARN; a step over any other file has
\* the same outcome under every policy and issues no message.
C2_PolicyOutcomes ==
  [][ (pc = "scan" /\ fileIt' = fileIt + 1) =>
        LET sf == srcFiles[fileIt]
        IN  IF EligibleGenerated(sf)
            THEN CASE inp.CMP0071 \in PolicyProcesses ->
                        BucketsGain(sf) /\ messages' = messages
                   [] inp.CMP0071 = "OLD" ->
                        BucketsKept /\ messages' = messages
                   [] inp.CMP0071 = "WARN" ->
                        /\ BucketsKept
                        /\ messages' = Append(messages, PolicyWarning(AbsPath(sf)))
            ELSE /\ messages' = messages
                 /\ \A status \in PolicyStatus :
                      AcquireScanFile(setup, messages, sf, inp.AUTOMOC, inp.AUTOUIC,
                                      status)
                        = [setup |-> setup', messages |-> messages'] ]_vars

\* under WARN a generated header was dropped with one warning naming it
C2_Witness ==
  /\ Classified /\ inp.CMP0071 = "WARN"
  /\ \E i \in 1..Len(srcFiles) :
       srcFiles[i].name = "b.h" /\ EligibleGenerated(srcFiles[i])
  /\ messages = <<PolicyWarning("b.h")>>
  /\ setup.headers = <<>>

\* C3 as stated: a generated code/header file dropped by policy OLD or
\* WARN has its canonical path in the skip list of each tool whose skip
\* flag it carries.
C3_AsStated ==
  (Classified /\ inp.CMP0071 \in {"OLD", "WARN"}) =>
    \A i \in 1..Len(srcFiles) :
      EligibleGenerated(srcFiles[i]) =>
        /\ ScanMocSkip(srcFiles[i]) => AbsPath(srcFiles[i]) \in Range(setup.mocSkip)
        /\ ScanUicSkip(srcFiles[i]) => AbsPath(srcFiles[i]) \in Range(setup.uicSkip)


\* no element occurs twice in the list
NoDuplicates(l) == \A i, j \in 1..Len(l) : l[i] = l[j] => i = j

\* C12 as stated: for every source list, also one in which two entries
\* resolve to the same canonical path, none of the lists the classifier
\* fills (sources, headers, resource-eligible files, reflection-skip,
\* UI-skip) holds a canonical path more than once.
C12_AsStated ==
  pc = "done" =>
    /\ NoDuplicates(setup.sources)
    /\ NoDuplicates(setup.headers)
    /\ NoDuplicates(rcc.rccFiles)
    /\ NoDuplicates(setup.mocSkip)
    /\ NoDuplicates(setup.uicSkip)

\* the bucket of a file: sources for code files, headers for header files
BucketOf(sf) ==
  IF GetFileFormat(GetExtension(sf)) = "CXX_FILE_FORMAT"
  THEN Range(setup.sources) ELSE Range(setup.headers)

Buckets == Range(setup.sources) \cup Range(setup.headers)

\* a code or header file the project did not mark generated
PlainScanFile(sf) == IsScanFormat(sf) /\ ~GetPropertyAsBool(sf, "GENERATED")

\* at least one enabled tool is skipped neither by the skip-all flag nor
\* by its own skip flag
SomeToolEligible(sf) ==
  \/ inp.AUTOMOC /\ ~SkipAll(sf) /\ ~GetPropertyAsBool(sf, "SKIP_AUTOMOC")
  \/ inp.AUTOUIC /\ ~SkipAll(sf) /\ ~GetPropertyAsBool(sf, "SKIP_AUTOUIC")

\* no other source entry resolves to the canonical path of entry i
Unaliased(i) ==
  \A j \in 1..Len(srcFiles) :
    AbsPath(srcFiles[j]) = AbsPath(srcFiles[i]) => j = i

\* the three statements of C16 about source entry i
PerToolEligibility(i) ==
  LET sf == srcFiles[i]
      absFile == AbsPath(sf)
  IN  /\ PlainScanFile(sf) =>
           /\ absFile \in Buckets <=> SomeToolEligible(sf)
           /\ SomeToolEligible(sf) =>
                /\ absFile \in BucketOf(sf)
                /\ ScanMocSkip(sf) => absFile \in Range(setup.mocSkip)
                /\ ScanUicSkip(sf) => absFile \in Range(setup.uicSkip)
      /\ absFile \in Range(setup.mocSkip) \cap Range(setup.uicSkip)
           => absFile \notin Buckets

\* C16 as stated: a non-generated code/header file is in its bucket if and
\* only if an enabled tool has neither the skip-all flag nor its own skip
\* flag set on the file; a file skipped for one tool and eligible for the
\* other is in its bucket and in the skipped tool's skip list; a file in
\* both skip lists is in no bucket.
C16_AsStated ==
  Classified => \A i \in 1..Len(srcFiles) : PerToolEligibility(i)

\* C16, amended: the same, for every source entry whose canonical path no
\* other entry of the source list resolves to.
C16_PerToolEligibility ==
  Classified =>
    \A i \in 1..Len(srcFiles) : Unaliased(i) => PerToolEligibility(i)

\* both tools on: a code file skipped for the reflection tool only is in
\* the sources and in the reflection-skip list alone; a header skipped for
\* both tools is in both skip lists and in no bucket
C16_Witness ==
  /\ Classified /\ inp.AUTOMOC /\ inp.AUTOUIC
  /\ \E i, j \in 1..Len(srcFiles) :
       /\ srcFiles[i] = [name |-> "a.cpp", props |-> {"SKIP_AUTOMOC"}]
       /\ srcFiles[j] = [name |-> "b.h", props |-> {"SKIP_AUTOMOC", "SKIP_AUTOUIC"}]
  /\ setup.sources = <<"a.cpp">>
  /\ setup.headers = <<>>
  /\ {"a.cpp", "b.h"} \subseteq Range(setup.mocSkip)
  /\ "b.h" \in Range(setup.uicSkip) /\ "a.cpp" \notin Range(setup.uicSkip)

(***************************************************************************)
(* The planning of one target over every configuration setup: SpecConfig   *)
(***************************************************************************)
MaxConfigs == 2

ConfigNames == {"Debug", "Release", "MinSizeRel"}

\* the sequences of at most n distinct elements of S, none empty
DistinctSeqs(S, n) ==
  { q \in SeqsUpTo(S, n) : q # <<>> /\ \A i, j \in 1..Len(q) : q[i] = q[j] => i = j }

\* the settings of one configuration: those of the build without a
\* configuration, the same in another order, or different ones
IncludeDirsChoice == { <<"/i", "/j">>, <<"/j", "/i">>, <<"/i", "/k">> }
CompileDefsChoice == { <<"QT_A", "QT_B">>, <<"QT_B", "QT_A">>, <<"QT_A", "QT_C">> }
UicOptionsChoice  == { <<"-x", "-y">>, <<"-y", "-x">>, <<"-x", "-z">> }

\* the generator and its configurations: CMAKE_CONFIGURATION_TYPES of a
\* multi-configuration generator, CMAKE_BUILD_TYPE of the others
ConfigSetups ==
  { [multiConfig |-> TRUE, configTypes |-> q, buildType |-> ""] :
      q \in DistinctSeqs(ConfigNames, MaxConfigs) }
  \cup
  { [multiConfig |-> FALSE, configTypes |-> <<>>, buildType |-> b] :
      b \in {"", "Debug", "Release"} }

ConfigTools == { {"AUTOMOC"}, {"AUTOUIC"}, {"AUTOMOC", "AUTOUIC", "AUTORCC"} }

ConfigSources ==
  << [name |-> "a.cpp", props |-> {}], [name |-> "r.qrc", props |-> {}] >>

InitConfig ==
  /\ \E g \in ConfigSetups, on \in ConfigTools, opens \in BOOLEAN,
        di, ri \in IncludeDirsChoice, dd, rd \in CompileDefsChoice,
        du, ru \in UicOptionsChoice :
       inp = [DefaultInput EXCEPT
                !.AUTOMOC = "AUTOMOC" \in on,
                !.AUTOUIC = "AUTOUIC" \in on,
                !.AUTORCC = "AUTORCC" \in on,
                !.multiConfig = g.multiConfig,
                !.configTypes = g.configTypes,
                !.buildType = g.buildType,
                !.includeDirs = [@ EXCEPT !["Debug"] = di, !["Release"] = ri],
                !.compileDefs = [@ EXCEPT !["Debug"] = dd, !["Release"] = rd],
                !.uicOptions = [@ EXCEPT !["Debug"] = du, !["Release"] = ru],
                !.infoOpens = opens]
  /\ Initialized(ConfigSources)
  /\ setup = EmptySetup
  /\ cfg = NoConfig
  /\ rcc = NoRcc
  /\ definitions = EmptyMap
  /\ infoFile = <<>>
  /\ merge = NoMerge
  /\ pc = "setup"
  /\ fileIt = 1
  /\ sourcesCache = NoCache
  /\ objectLibrary = <<>>
  /\ passes = <<>>

SpecConfig == InitConfig /\ [][NextSetup]_vars

(***************************************************************************)
(* Properties of the configuration differ and of the descriptor            *)
(***************************************************************************)
\* the configurations the target declares, and the baseline one
DeclaredConfigs == Range(GetConfigurations.configs)
BaselineConfig == GetConfigurations.config

\* list l holds the elements of list b in another order
Reordered(l, b) == Range(l) = Range(b) /\ Len(l) = Len(b) /\ l # b

\* C6 as stated: a configuration whose include paths, defines or UI
\* options are those of the baseline in another order gets a diff entry for
\* that setting.
C6_AsStated ==
  pc = "done" =>
    \A c \in DeclaredConfigs :
      /\ (inp.AUTOMOC /\ Reordered(inp.includeDirs[c], inp.includeDirs[BaselineConfig]))
           => c \in DOMAIN setup.configMocIncludes
      /\ (inp.AUTOMOC /\ Reordered(inp.compileDefs[c], inp.compileDefs[BaselineConfig]))
           => c \in DOMAIN setup.configMocDefines
      /\ (inp.AUTOUIC /\ Reordered(inp.uicOptions[c], inp.uicOptions[BaselineConfig]))
           => c \in DOMAIN setup.configUicOptions

\* C6, amended: a configuration whose include paths or UI options are
\* those of the baseline in another order gets a diff entry for that
\* setting, holding its own joined list; one whose defines are those of the
\* baseline in another order gets no diff entry for the defines.
C6_OrderSensitiveLists ==
  pc = "done" =>
    \A c \in DeclaredConfigs :
      /\ (inp.AUTOMOC /\ Reordered(inp.includeDirs[c], inp.includeDirs[BaselineConfig]))
           => /\ c \in DOMAIN setup.configMocIncludes
              /\ setup.configMocIncludes[c] = cmJoin(inp.includeDirs[c], ";")
      /\ (inp.AUTOUIC /\ Reordered(inp.uicOptions[c], inp.uicOptions[BaselineConfig]))
           => /\ c \in DOMAIN setup.configUicOptions
              /\ setup.configUicOptions[c] = cmJoin(inp.uicOptions[c], ";")
      /\ (inp.AUTOMOC /\ Reordered(inp.compileDefs[c], inp.compileDefs[BaselineConfig]))
           => c \notin DOMAIN setup.configMocDefines

\* Debug has the include paths and the defines of the baseline in another
\* order: the includes have a diff entry, the defines have none
C6_Witness ==
  /\ pc = "done" /\ inp.AUTOMOC /\ inp.multiConfig
  /\ "Debug" \in DeclaredConfigs
  /\ inp.includeDirs["Debug"] = <<"/j", "/i">>
  /\ inp.compileDefs["Debug"] = <<"QT_B", "QT_A">>
  /\ setup.configMocIncludes = [c \in {"Debug"} |-> "/j;/i"]
  /\ setup.configMocDefines = EmptyMap

\* the keys of the descriptor, and the value a key has in it
InfoKeys == { infoFile[i].key : i \in DOMAIN infoFile }
InfoValue(key) == infoFile[CHOOSE i \in DOMAIN infoFile : infoFile[i].key = key].value

\* the value of <base-key>_<C> is in the descriptor exactly if differs
\* holds, and then it is value
DiffKey(key, differs, value) ==
  /\ key \in InfoKeys <=> differs
  /\ differs => InfoValue(key) = EscapeForCMake(value)

\* the joined defines of configuration c, as std::set orders them
JoinedDefines(c) == cmJoin(InOrder(DefineLexOrder, Range(inp.compileDefs[c])), ";")

\* some setting of an enabled tool differs from the baseline in some
\* declared configuration
SomeDiff ==
  \E c \in DeclaredConfigs :
    \/ inp.AUTOMOC /\ inp.includeDirs[c] # inp.includeDirs[BaselineConfig]
    \/ inp.AUTOMOC /\ JoinedDefines(c) # JoinedDefines(BaselineConfig)
    \/ inp.AUTOUIC /\ inp.uicOptions[c] # inp.uicOptions[BaselineConfig]

\* C7: in a descriptor that could be opened for appending, for every
\* declared configuration C the key <base-key>_<C> of a diffed setting is
\* present exactly if its tool is enabled and C's joined value differs from
\* the baseline's, and the suffix key of C is present exactly in
\* multi-configuration mode; without a diff and outside multi-configuration
\* mode the descriptor ends with the template part.
C7_DiffKeysIffDiffer ==
  pc = "done" =>
    /\ inp.infoOpens =>
         \A c \in DeclaredConfigs :
           /\ DiffKey("AM_MOC_INCLUDES_" \o c,
                      inp.AUTOMOC /\ cmJoin(inp.includeDirs[c], ";")
                                       # cmJoin(inp.includeDirs[BaselineConfig], ";"),
                      cmJoin(inp.includeDirs[c], ";"))
           /\ DiffKey("AM_MOC_DEFINITIONS_" \o c,
                      inp.AUTOMOC /\ JoinedDefines(c) # JoinedDefines(BaselineConfig),
                      JoinedDefines(c))
           /\ DiffKey("AM_UIC_TARGET_OPTIONS_" \o c,
                      inp.AUTOUIC /\ cmJoin(inp.uicOptions[c], ";")
                                       # cmJoin(inp.uicOptions[BaselineConfig], ";"),
                      cmJoin(inp.uicOptions[c], ";"))
           /\ DiffKey("AM_CONFIG_SUFFIX_" \o c, inp.multiConfig, "_" \o c)
    /\ (~SomeDiff /\ ~inp.multiConfig) =>
         /\ Len(infoFile) = Len(InfoTemplate)
         /\ \A i \in DOMAIN infoFile : infoFile[i].key = InfoTemplate[i][1]

\* two configurations, both tools: Debug differs from the baseline in its
\* UI options only, Release in nothing, and the descriptor says so
C7_Witness ==
  /\ pc = "done" /\ inp.infoOpens /\ inp.AUTOMOC /\ inp.AUTOUIC
  /\ DeclaredConfigs = {"Debug", "Release"}
  /\ "AM_UIC_TARGET_OPTIONS_Debug" \in InfoKeys
  /\ "AM_UIC_TARGET_OPTIONS_Release" \notin InfoKeys
  /\ "AM_MOC_INCLUDES_Debug" \notin InfoKeys
  /\ {"AM_CONFIG_SUFFIX_Debug", "AM_CONFIG_SUFFIX_Release"} \subseteq InfoKeys


(***************************************************************************)
(* The planning of one target over every tool installation: SpecTools      *)
(***************************************************************************)
QtVersions == {"4", "5", "6"}

ImportTargets ==
  {"Qt4::moc", "Qt4::uic", "Qt4::rcc", "Qt5::moc", "Qt5::uic", "Qt5::rcc"}

InitTools ==
  /\ \E v \in QtVersions, found \in SUBSET ImportTargets,
        on \in (SUBSET Tools) \ {{}} :
       inp = [DefaultInput EXCEPT !.AUTOMOC = "AUTOMOC" \in on,
                                  !.AUTOUIC = "AUTOUIC" \in on,
                                  !.AUTORCC = "AUTORCC" \in on,
                                  !.qtMajorVersion = v,
                                  !.imported = found]
  /\ Initialized(ConfigSources)
  /\ setup = EmptySetup
  /\ cfg = NoConfig
  /\ rcc = NoRcc
  /\ definitions = EmptyMap
  /\ infoFile = <<>>
  /\ merge = NoMerge
  /\ pc = "setup"
  /\ fileIt = 1
  /\ sourcesCache = NoCache
  /\ objectLibrary = <<>>
  /\ passes = <<>>

SpecTools == InitTools /\ [][NextSetup]_vars

(***************************************************************************)
(* Properties of the tool resolution                                       *)
(***************************************************************************)
\* the import target of a tool for the requested major version
ImportTarget(tool) == "Qt" \o inp.qtMajorVersion \o "::" \o tool

\* the requested major version is supported and the tool's import target
\* is in the build graph
Resolvable(tool) ==
  inp.qtMajorVersion \in {"4", "5"} /\ ImportTarget(tool) \in inp.imported

\* the resolution errors reported for a tool, feature being its name in
\* the diagnostics
ResolutionErrors(tool, feature) ==
  SelectSeq(messages,
            LAMBDA m : /\ m.type = "ERROR"
                       /\ m.text \in { feature \o ": Qt4::" \o tool \o " target not found",
                                       feature \o ": Qt5::" \o tool \o " target not found",
                                       "The " \o feature
                                         \o " feature supports only Qt 4 and Qt 5" })

\* the descriptor names the location of the tool's import target
LocationWritten(tool, key) ==
  /\ key \in InfoKeys
  /\ InfoValue(key) = EscapeForCMake("/qt/bin/" \o ImportTarget(tool))

\* the descriptor names no executable for the tool
NoLocationWritten(key) == key \in InfoKeys /\ InfoValue(key) \in {"", EscapeForCMake("")}

\* the tool is resolved without error exactly if it is resolvable, and an
\* unresolvable tool is reported
ResolvedIffResolvable(tool, feature, key) ==
  IF Resolvable(tool)
  THEN ResolutionErrors(tool, feature) = <<>> /\ LocationWritten(tool, key)
  ELSE ResolutionErrors(tool, feature) # <<>> /\ NoLocationWritten(key)

\* C8 as stated: each enabled tool is resolved to the location of its
\* import target without error if the major version is "4" or "5" and the
\* import target is found, and reports a resolution error otherwise.
C8_AsStated ==
  pc = "done" =>
    /\ inp.AUTOMOC => ResolvedIffResolvable("moc", "AUTOMOC", "AM_QT_MOC_EXECUTABLE")
    /\ inp.AUTOUIC => ResolvedIffResolvable("uic", "AUTOUIC", "AM_QT_UIC_EXECUTABLE")
    /\ inp.AUTORCC => ResolvedIffResolvable("rcc", "AUTORCC", "AM_QT_RCC_EXECUTABLE")

\* C8, amended: the reflection tool and the resource packer are resolved
\* to the location of their import target without error if the major
\* version is "4" or "5" and the import target is found, and report one
\* resolution error otherwise; so does the UI tool, except that with major
\* version "5" a missing import target is no error and leaves the UI
\* executable empty.
C8_ToolResolution ==
  pc = "done" =>
    /\ inp.AUTOMOC => ResolvedIffResolvable("moc", "AUTOMOC", "AM_QT_MOC_EXECUTABLE")
    /\ inp.AUTORCC => ResolvedIffResolvable("rcc", "AUTORCC", "AM_QT_RCC_EXECUTABLE")
    /\ inp.AUTOUIC =>
         IF inp.qtMajorVersion = "5" /\ "Qt5::uic" \notin inp.imported
         THEN /\ ResolutionErrors("uic", "AUTOUIC") = <<>>
              /\ NoLocationWritten("AM_QT_UIC_EXECUTABLE")
         ELSE ResolvedIffResolvable("uic", "AUTOUIC", "AM_QT_UIC_EXECUTABLE")

\* version "6" with every import target present and every tool enabled:
\* every tool reports a resolution error, no executable in the descriptor
C8_Witness ==
  /\ pc = "done" /\ inp.AUTOMOC /\ inp.AUTOUIC /\ inp.AUTORCC
  /\ inp.qtMajorVersion = "6" /\ inp.imported = ImportTargets
  /\ ResolutionErrors("moc", "AUTOMOC") # <<>>
  /\ ResolutionErrors("uic", "AUTOUIC") # <<>>
  /\ ResolutionErrors("rcc", "AUTORCC") # <<>>
  /\ NoLocationWritten("AM_QT_MOC_EXECUTABLE")
  /\ NoLocationWritten("AM_QT_UIC_EXECUTABLE")
  /\ NoLocationWritten("AM_QT_RCC_EXECUTABLE")


(***************************************************************************)
(* Both planning phases of one target: Spec                                *)
(***************************************************************************)
\* the properties a project sets on a source file of each kind
PlanProps(name) ==
  CASE name = "a.cpp" -> SUBSET {"GENERATED", "SKIP_AUTOGEN", "SKIP_AUTOMOC"}
    [] name = "b.h"   -> SUBSET {"GENERATED", "SKIP_AUTOUIC"}
    [] name = "l.cpp" -> SUBSET {"GENERATED"}
    [] name = "r.qrc" -> SUBSET {"GENERATED", "SKIP_AUTOGEN", "SKIP_AUTORCC"}
    [] OTHER -> {{}}

\* the source lists of at most n files
PlanSourceLists(n) ==
  SourceLists(n, [name \in SourceNames |-> PlanProps(name)])

Init ==
  /\ \E files \in PlanSourceLists(MaxFiles), on \in (SUBSET Tools) \ {{}},
        status \in {"WARN", "OLD", "NEW"}, listOk \in BOOLEAN :
       /\ inp = [DefaultInput EXCEPT
                   !.AUTOMOC = "AUTOMOC" \in on,
                   !.AUTOUIC = "AUTOUIC" \in on,
                   !.AUTORCC = "AUTORCC" \in on,
                   !.CMP0071 = status,
                   !.rccListOk = listOk,
                   !.autogenTargetDepends = <<"schema.h">>,
                   !.utilities = {"codegen", "ghost"},
                   !.linkLibraries = <<"corelib", "m">>,
                   !.targets = {"codegen", "corelib"}]
       /\ srcFiles = files
  /\ setup = EmptySetup
  /\ cfg = NoConfig
  /\ rcc = NoRcc
  /\ definitions = EmptyMap
  /\ infoFile = <<>>
  /\ messages = <<>>
  /\ merge = NoMerge
  /\ gen = NoGen
  /\ pc = "init"
  /\ fileIt = 1
  /\ sourcesCache = NoCache
  /\ objectLibrary = <<>>
  /\ passes = <<>>

Next == NextInitialize \/ NextSetup

Spec == Init /\ [][Next]_vars

(***************************************************************************)
(* Properties of the dependency set                                        *)
(***************************************************************************)
\* the source entries InitializeAutogenTarget was given: those it
\* registered itself come after them
DeclaredSources == SelectSeq(srcFiles, LAMBDA sf : sf.name \in SourceNames)

\* InitializeAutogenTarget is over, SetupAutoGenerateTarget has not begun
InitializeDone == pc = "setup"

\* an eligible resource-description file of the target
EligibleQrc(sf) ==
  /\ inp.AUTORCC
  /\ GetExtension(sf) = "qrc"
  /\ ~GetPropertyAsBool(sf, "SKIP_AUTOGEN")
  /\ ~GetPropertyAsBool(sf, "SKIP_AUTORCC")

\* the dependencies of the generated build step
StepDepends == gen.utilityCommands[Len(gen.utilityCommands)].depends

\* C9: when InitializeAutogenTarget is over, the dependency set holds the
\* canonical path of every eligible generated resource-description file,
\* whose content inputs were neither queried nor added; for every eligible
\* resource-description file that is not generated the file is a
\* reconfigure trigger, its content inputs were queried and every file
\* listed is in the dependency set (a failed listing is reported and adds
\* nothing), and its own path is not in the dependency set.
C9_QrcContributions ==
  InitializeDone =>
    \A i \in 1..Len(DeclaredSources) :
      LET sf == DeclaredSources[i]
          absFile == AbsPath(sf)
      IN  EligibleQrc(sf) =>
            IF GetPropertyAsBool(sf, "GENERATED")
            THEN /\ absFile \in StepDepends
                 /\ absFile \notin Range(gen.listQueries)
                 /\ absFile \notin Range(gen.cmakeDependFiles)
                 /\ Range(QrcEntries(absFile)) \cap StepDepends = {}
            ELSE /\ absFile \in Range(gen.cmakeDependFiles)
                 /\ absFile \in Range(gen.listQueries)
                 /\ absFile \notin StepDepends
                 /\ IF inp.rccListOk
                    THEN Range(QrcEntries(absFile)) \subseteq StepDepends
                    ELSE /\ Range(QrcEntries(absFile)) \cap StepDepends = {}
                         /\ ListError(absFile) \in Range(messages)

\* a generated resource-description file: its path is a dependency, its
\* inputs were not queried
C9_Witness ==
  /\ InitializeDone /\ inp.AUTORCC
  /\ \E i \in 1..Len(DeclaredSources) :
       /\ DeclaredSources[i].name = "r.qrc"
       /\ DeclaredSources[i].props = {"GENERATED"}
  /\ "r.qrc" \in StepDepends
  /\ gen.listQueries = <<>>
  /\ gen.autogenProvides # <<>>

\* C10 as stated: a generated code/header source is a dependency of the
\* generated build step only if the classifier lists it in the sources or
\* the headers of the descriptor.
C10_AsStated ==
  pc = "done" =>
    \A i \in 1..Len(DeclaredSources) :
      LET sf == DeclaredSources[i]
      IN  (IsScanFormat(sf) /\ GetPropertyAsBool(sf, "GENERATED")
             /\ AbsPath(sf) \in StepDepends)
            => AbsPath(sf) \in Range(setup.sources) \cup Range(setup.headers)


(***************************************************************************)
(* Planning the same target twice: SpecReplan                              *)
(***************************************************************************)
\* what a planning pass leaves behind: the descriptor, the sources of the
\* target, the registrations, the diagnostics
PassOutcome ==
  [infoFile |-> infoFile, srcFiles |-> srcFiles, gen |-> gen, messages |-> messages]

\* the caller runs InitializeAutogenTarget and SetupAutoGenerateTarget on
\* the target once more, its inputs unchanged
Replan ==
  /\ pc = "done"
  /\ passes = <<>>
  /\ passes' = <<PassOutcome>>
  /\ pc' = "init"
  /\ UNCHANGED <<inp, srcFiles, setup, cfg, rcc, definitions, infoFile, messages,
                 merge, gen, fileIt, sourcesCache, objectLibrary>>

InitReplan ==
  /\ \E files \in PlanSourceLists(MaxFiles), on \in (SUBSET Tools) \ {{}} :
       /\ inp = [DefaultInput EXCEPT
                   !.AUTOMOC = "AUTOMOC" \in on,
                   !.AUTOUIC = "AUTOUIC" \in on,
                   !.AUTORCC = "AUTORCC" \in on,
                   !.autogenTargetDepends = <<"schema.h">>,
                   !.utilities = {"codegen", "ghost"},
                   !.linkLibraries = <<"corelib", "m">>,
                   !.targets = {"codegen", "corelib"}]
       /\ srcFiles = files
  /\ setup = EmptySetup
  /\ cfg = NoConfig
  /\ rcc = NoRcc
  /\ definitions = EmptyMap
  /\ infoFile = <<>>
  /\ messages = <<>>
  /\ merge = NoMerge
  /\ gen = NoGen
  /\ pc = "init"
  /\ fileIt = 1
  /\ sourcesCache = NoCache
  /\ objectLibrary = <<>>
  /\ passes = <<>>

NextReplan == NextInitialize \/ NextSetup \/ Replan

SpecReplan == InitReplan /\ [][NextReplan]_vars

(***************************************************************************)
(* Properties of repeated planning                                         *)
(***************************************************************************)
\* the second pass over the target is over
SecondPassDone == pc = "done" /\ passes # <<>>

\* the dependencies the generated build step was given in the first pass
FirstStepDepends == passes[1].gen.utilityCommands[1].depends

\* C11 as stated: after a second planning pass with unchanged inputs the
\* descriptor is the one of the first pass, and the sources added to the
\* target, the clean-file registrations, the dependency set, the dependency
\* edge and the generated build step are those of the first pass, nothing
\* being registered twice.
C11_AsStated ==
  SecondPassDone =>
    /\ infoFile = passes[1].infoFile
    /\ srcFiles = passes[1].srcFiles
    /\ gen.cleanFiles = passes[1].gen.cleanFiles
    /\ StepDepends = FirstStepDepends
    /\ gen.utilities = passes[1].gen.utilities
    /\ gen.utilityCommands = passes[1].gen.utilityCommands

\* the output files the planner has registered on the target, in this pass
\* and in the pass before it
RegisteredOutputs ==
  Range(gen.autogenProvides)
    \cup (IF passes = <<>> THEN {} ELSE Range(passes[1].gen.autogenProvides))

\* every dependency set handed to a generated build step so far, and the
\* one being collected
AllStepDepends ==
  gen.autogenDependsSet
    \cup UNION {gen.utilityCommands[i].depends : i \in 1..Len(gen.utilityCommands)}

\* C19: every output file the planner registers on the target is a source
\* of the target with the generated marker and the do-not-re-plan marker,
\* and in the same and in a later planning pass it is never in the sources
\* or headers bucket, never a resource-description file and never in the
\* dependency set of the generated step.
C19_NoSelfProcessing ==
  \A o \in RegisteredOutputs :
    /\ \E i \in 1..Len(srcFiles) :
         /\ srcFiles[i].name = o
         /\ {"GENERATED", "SKIP_AUTOGEN"} \subseteq srcFiles[i].props
    /\ o \notin Range(setup.sources) \cup Range(setup.headers)
    /\ o \notin Range(rcc.rccFiles)
    /\ \A k \in 1..Len(gen.qrcSources) : gen.qrcSources[k].file # o
    /\ o \notin Range(gen.generatedSources)
    /\ o \notin AllStepDepends

\* a second pass has planned a target whose source list holds the
\* consolidated moc compilation unit and the translation unit of r.qrc, both
\* registered by the first pass
C19_Witness ==
  /\ SecondPassDone
  /\ {MocsCompilation, RccBuildFile("r.qrc")}
       \subseteq Range(passes[1].gen.autogenProvides)
  /\ {MocsCompilation, RccBuildFile("r.qrc")}
       \subseteq {srcFiles[i].name : i \in 1..Len(srcFiles)}
  /\ setup.sources # <<>>


(***************************************************************************)
(* Both planning phases over every tool installation: SpecFailures         *)
(***************************************************************************)
\* the source lists planned: a generated code file next to a resource
\* file, a generated resource file, a header next to a resource file
FailureSources ==
  { << [name |-> "a.cpp", props |-> {"GENERATED"}], [name |-> "r.qrc", props |-> {}] >>,
    << [name |-> "r.qrc", props |-> {"GENERATED"}] >>,
    << [name |-> "b.h", props |-> {}], [name |-> "r.qrc", props |-> {}] >> }

InitFailures ==
  /\ \E files \in FailureSources, v \in QtVersions, found \in SUBSET ImportTargets,
        on \in (SUBSET Tools) \ {{}}, listOk \in BOOLEAN :
       /\ inp = [DefaultInput EXCEPT
                   !.AUTOMOC = "AUTOMOC" \in on,
                   !.AUTOUIC = "AUTOUIC" \in on,
                   !.AUTORCC = "AUTORCC" \in on,
                   !.qtMajorVersion = v,
                   !.imported = found,
                   !.rccListOk = listOk,
                   !.autogenTargetDepends = <<"schema.h">>,
                   !.utilities = {"codegen", "ghost"},
                   !.linkLibraries = <<"corelib", "m">>,
                   !.targets = {"codegen", "corelib"}]
       /\ srcFiles = files
  /\ setup = EmptySetup
  /\ cfg = NoConfig
  /\ rcc = NoRcc
  /\ definitions = EmptyMap
  /\ infoFile = <<>>
  /\ messages = <<>>
  /\ merge = NoMerge
  /\ gen = NoGen
  /\ pc = "init"
  /\ fileIt = 1
  /\ sourcesCache = NoCache
  /\ objectLibrary = <<>>
  /\ passes = <<>>

SpecFailures == InitFailures /\ [][Next]_vars

(***************************************************************************)
(* Properties of failed resolutions and listings                           *)
(***************************************************************************)
\* the descriptor holds every key of the template, in order
DescriptorEmitted ==
  /\ Len(infoFile) >= Len(InfoTemplate)
  /\ \A i \in 1..Len(InfoTemplate) : infoFile[i].key = InfoTemplate[i][1]

\* the output files the planner is to register for the target
OutputFiles ==
  (IF inp.AUTOMOC THEN {MocsCompilation} ELSE {})
    \cup { RccBuildFile(AbsPath(DeclaredSources[i])) :
             i \in { k \in 1..Len(DeclaredSources) : EligibleQrc(DeclaredSources[k]) } }

\* every output file is a generated source of the target and a byproduct
\* of the build step, on which the target depends
OutputsRegistered ==
  /\ gen.utilityCommands # <<>>
  /\ GetAutogenTargetName \in gen.utilities
  /\ OutputFiles \subseteq Range(gen.utilityCommands[Len(gen.utilityCommands)].byproducts)
  /\ \A f \in OutputFiles : GeneratedSourceFile(f) \in Range(srcFiles)

\* what the dependency set gathers without listing a resource file
GatheredWithoutListing ==
  Range(inp.autogenTargetDepends)
    \cup (inp.utilities \cap inp.targets)
    \cup (Range(inp.linkLibraries) \cap inp.targets)
    \cup { AbsPath(DeclaredSources[i]) :
             i \in { k \in 1..Len(DeclaredSources) :
                       \/ InitGeneratedAccept(DeclaredSources[k])
                       \/ /\ EligibleQrc(DeclaredSources[k])
                          /\ GetPropertyAsBool(DeclaredSources[k], "GENERATED") } }

\* a resource file of the target whose inputs are to be listed
ListedQrc(sf) == EligibleQrc(sf) /\ ~GetPropertyAsBool(sf, "GENERATED")

\* every failed listing is reported; a listing that succeeded is in the
\* dependency set
ListingsAccounted ==
  \A i \in 1..Len(DeclaredSources) :
    ListedQrc(DeclaredSources[i]) =>
      IF inp.rccListOk
      THEN Range(QrcEntries(AbsPath(DeclaredSources[i]))) \subseteq StepDepends
      ELSE ListError(AbsPath(DeclaredSources[i])) \in Range(messages)

\* the planning ran to its end although a tool or a listing failed
PlannedToCompletion ==
  /\ DescriptorEmitted
  /\ OutputsRegistered
  /\ GatheredWithoutListing \subseteq StepDepends
  /\ ListingsAccounted

\* the descriptor names no executable for an enabled tool that cannot be
\* resolved
UnresolvedLeftEmpty ==
  /\ (inp.AUTOMOC /\ ~Resolvable("moc")) => NoLocationWritten("AM_QT_MOC_EXECUTABLE")
  /\ (inp.AUTOUIC /\ ~Resolvable("uic")) => NoLocationWritten("AM_QT_UIC_EXECUTABLE")
  /\ (inp.AUTORCC /\ ~Resolvable("rcc")) => NoLocationWritten("AM_QT_RCC_EXECUTABLE")

\* C13 as stated: after a tool-resolution or listing failure the planning
\* still runs to completion; the descriptor has an empty executable path
\* for every unresolved tool and every failure is recorded as an error.
C13_AsStated ==
  pc = "done" =>
    /\ PlannedToCompletion
    /\ UnresolvedLeftEmpty
    /\ (inp.AUTOMOC /\ ~Resolvable("moc")) => ResolutionErrors("moc", "AUTOMOC") # <<>>
    /\ (inp.AUTOUIC /\ ~Resolvable("uic")) => ResolutionErrors("uic", "AUTOUIC") # <<>>
    /\ (inp.AUTORCC /\ ~Resolvable("rcc")) => ResolutionErrors("rcc", "AUTORCC") # <<>>

\* C13, amended: after a tool-resolution or listing failure the planning
\* still runs to completion: the descriptor is emitted with an empty
\* executable path for every unresolved tool, the output files and the
\* build step are registered, the dependency set holds what was gathered
\* from the sources that succeeded; every failed listing and every failed
\* resolution is recorded as an error, except that a UI tool whose import
\* target is missing with major version "5" is recorded nowhere.
C13_FailuresNonFatal ==
  pc = "done" =>
    /\ PlannedToCompletion
    /\ UnresolvedLeftEmpty
    /\ (inp.AUTOMOC /\ ~Resolvable("moc")) => ResolutionErrors("moc", "AUTOMOC") # <<>>
    /\ (inp.AUTORCC /\ ~Resolvable("rcc")) => ResolutionErrors("rcc", "AUTORCC") # <<>>
    /\ (inp.AUTOUIC /\ ~Resolvable("uic")) =>
         IF inp.qtMajorVersion = "5"
         THEN ResolutionErrors("uic", "AUTOUIC") = <<>>
         ELSE ResolutionErrors("uic", "AUTOUIC") # <<>>

\* no tool can be resolved and the listing fails: both errors of the
\* resource packer and the listing error are recorded, the resource output
\* is registered all the same and the generated code file is a dependency
C13_Witness ==
  /\ pc = "done" /\ inp.AUTOMOC /\ inp.AUTORCC
  /\ inp.qtMajorVersion = "4" /\ inp.imported = {} /\ ~inp.rccListOk
  /\ ResolutionErrors("moc", "AUTOMOC") # <<>>
  /\ Len(ResolutionErrors("rcc", "AUTORCC")) = 2
  /\ ListError("r.qrc") \in Range(messages)
  /\ RccBuildFile("r.qrc") \in OutputFiles
  /\ "a.cpp" \in StepDepends
  /\ OutputsRegistered /\ DescriptorEmitted


(***************************************************************************)
(* Writing the descriptor when the file system fails: SpecWrite            *)
(***************************************************************************)
InitWrite ==
  /\ \E g \in ConfigSetups, on \in ConfigTools, du \in UicOptionsChoice,
        configures, opens, writes \in BOOLEAN :
       inp = [DefaultInput EXCEPT
                !.AUTOMOC = "AUTOMOC" \in on,
                !.AUTOUIC = "AUTOUIC" \in on,
                !.AUTORCC = "AUTORCC" \in on,
                !.multiConfig = g.multiConfig,
                !.configTypes = g.configTypes,
                !.buildType = g.buildType,
                !.uicOptions = [@ EXCEPT !["Debug"] = du],
                !.configureOk = configures,
                !.infoOpens = opens,
                !.infoWrites = writes]
  /\ Initialized(ConfigSources)
  /\ setup = EmptySetup
  /\ cfg = NoConfig
  /\ rcc = NoRcc
  /\ definitions = EmptyMap
  /\ infoFile = <<>>
  /\ merge = NoMerge
  /\ pc = "setup"
  /\ fileIt = 1
  /\ sourcesCache = NoCache
  /\ objectLibrary = <<>>
  /\ passes = <<>>

SpecWrite == InitWrite /\ [][NextSetup]_vars

(***************************************************************************)
(* Properties of the descriptor write                                      *)
(***************************************************************************)
\* the descriptor holds the template part and, where one is due, the whole
\* configuration-specific section after it
DescriptorComplete ==
  /\ DescriptorEmitted
  /\ infoFile = SubSeq(infoFile, 1, Len(InfoTemplate))
                  \o (IF InfoAppends THEN InfoAppendix ELSE <<>>)

\* an error naming the descriptor file has been reported
DescriptorErrorReported ==
  \E i \in 1..Len(messages) :
    /\ messages[i].type = "ERROR"
    /\ messages[i].arg = GetAutogenTargetFilesDir \o "/AutogenInfo.cmake"

\* C14 as stated: whenever the descriptor cannot be completely written
\* (the template-based file cannot be produced, the file cannot be opened
\* for appending, a write of the configuration-specific section fails),
\* SetupAutoGenerateTarget reports an error naming the descriptor file: no
\* run ends with an incomplete descriptor and no error reported.
C14_AsStated ==
  pc = "done" => (DescriptorComplete \/ DescriptorErrorReported)


(***************************************************************************)
(* A target and the OBJECT library whose objects it uses: SpecCache        *)
(***************************************************************************)
\* the source the OBJECT library is declared with
LibrarySource == "lib.cpp"

\* the moc compilation file InitializeAutogenTarget adds to the library
LibraryMocsCompilation == "/bin/lib_autogen/mocs_compilation.cpp"

\* InitializeAutogenTarget has run on the library
LibraryPlanned == LibraryMocsCompilation \in Range(objectLibrary)

\* InitializeAutogenTarget on the OBJECT library, between two planner
\* functions of the target: AddGeneratedSource adds its moc compilation
\* file to its sources
PlanObjectLibrary ==
  /\ pc \in {"init", "setup", "done"}
  /\ ~LibraryPlanned
  /\ objectLibrary' = Append(objectLibrary, LibraryMocsCompilation)
  /\ UNCHANGED <<inp, srcFiles, setup, cfg, rcc, definitions, infoFile, messages,
                 merge, gen, pc, fileIt, sourcesCache, passes>>

InitCache ==
  /\ \E files \in FailureSources, on \in (SUBSET Tools) \ {{}} :
       /\ inp = [DefaultInput EXCEPT
                   !.AUTOMOC = "AUTOMOC" \in on,
                   !.AUTOUIC = "AUTOUIC" \in on,
                   !.AUTORCC = "AUTORCC" \in on]
       /\ srcFiles = files
  /\ setup = EmptySetup
  /\ cfg = NoConfig
  /\ rcc = NoRcc
  /\ definitions = EmptyMap
  /\ infoFile = <<>>
  /\ messages = <<>>
  /\ merge = NoMerge
  /\ gen = NoGen
  /\ pc = "init"
  /\ fileIt = 1
  /\ sourcesCache = NoCache
  /\ objectLibrary = <<LibrarySource>>
  /\ passes = <<>>

NextCache == NextInitialize \/ NextSetup \/ PlanObjectLibrary

SpecCache == InitCache /\ [][NextCache]_vars

(***************************************************************************)
(* Properties of the sources cache                                         *)
(***************************************************************************)
\* a planner function of the target has returned: the planning of another
\* target may begin
BetweenFunctions == pc \in {"setup", "done"}

\* the sources the target is seen with by whoever queries it now
ObservedSources == GetConfigCommonSourceFiles(sourcesCache, srcFiles, objectLibrary)

\* C15 as stated: after each of the two queries of the target's memoized
\* source list the planner has cleared the cache when its function returns;
\* and in every order of planning, the target is seen with the generated
\* outputs added to the library it shares sources with.
C15_AsStated ==
  BetweenFunctions =>
    /\ ~sourcesCache.valid
    /\ ObservedSources.objects = objectLibrary


(***************************************************************************)
(* The dependency set over the user's extra dependencies: SpecDepends      *)
(***************************************************************************)
\* the values of AUTOGEN_TARGET_DEPENDS planned: a file that is no source,
\* the symlink l.cpp, and a.cpp next to its symlink
ExtraDependsChoice == {<<"schema.h">>, <<"l.cpp">>, <<"a.cpp", "l.cpp">>}

InitDepends ==
  /\ \E files \in PlanSourceLists(MaxFiles), on \in (SUBSET Tools) \ {{}},
        deps \in ExtraDependsChoice :
       /\ inp = [DefaultInput EXCEPT
                   !.AUTOMOC = "AUTOMOC" \in on,
                   !.AUTOUIC = "AUTOUIC" \in on,
                   !.AUTORCC = "AUTORCC" \in on,
                   !.autogenTargetDepends = deps,
                   !.utilities = {"codegen", "ghost"},
                   !.linkLibraries = <<"corelib", "m">>,
                   !.targets = {"codegen", "corelib"}]
       /\ srcFiles = files
  /\ setup = EmptySetup
  /\ cfg = NoConfig
  /\ rcc = NoRcc
  /\ definitions = EmptyMap
  /\ infoFile = <<>>
  /\ messages = <<>>
  /\ merge = NoMerge
  /\ gen = NoGen
  /\ pc = "init"
  /\ fileIt = 1
  /\ sourcesCache = NoCache
  /\ objectLibrary = <<>>
  /\ passes = <<>>

SpecDepends == InitDepends /\ [][NextInitialize]_vars

\* the entries of the dependency set that are file paths: all but the
\* names of targets
DependFiles == StepDepends \ inp.targets

\* C20 as stated: every file path in the dependency set handed to the
\* generated build step is canonical, and no two entries are spellings of
\* the same file.
C20_AsStated ==
  pc = "setup" =>
    /\ \A p \in DependFiles : GetRealPath(p) = p
    /\ \A p, q \in DependFiles : GetRealPath(p) = GetRealPath(q) => p = q


(***************************************************************************)
(* Properties of the two phases over the resource files (Spec)            *)
(***************************************************************************)
\* the resource-description files InitializeAutogenTarget registered a
\* generated output for
RegisteredQrcFiles == {gen.qrcSources[k].file : k \in 1..Len(gen.qrcSources)}

\* the resource files SetupAutoTargetRcc lists
ListedRccFiles == Range(rcc.rccFiles)

\* C21: for a target with AUTORCC, when both phases are over the
\* resource-description files InitializeAutogenTarget registered a generated
\* output for are the files SetupAutoTargetRcc lists in the descriptor: every
\* listed file has its registered output, every registered qrc output is
\* that of a listed file, and the descriptor's AM_RCC_SOURCES is the list.
C21_PhasesAgree ==
  (pc = "done" /\ inp.AUTORCC) =>
    /\ RegisteredQrcFiles = ListedRccFiles
    /\ \A f \in ListedRccFiles :
         /\ RccBuildFile(f) \in Range(gen.autogenProvides)
         /\ \E i \in 1..Len(srcFiles) : srcFiles[i].name = RccBuildFile(f)
    /\ \A o \in Range(gen.autogenProvides) \ {MocsCompilation} :
         \E f \in ListedRccFiles : o = RccBuildFile(f)
    /\ InfoValue("AM_RCC_SOURCES") = EscapeForCMake(cmJoin(rcc.rccFiles, ";"))

\* both phases are over for a target with AUTOMOC and AUTORCC whose r.qrc is
\* listed and has its output registered next to the moc compilation unit
C21_Witness ==
  /\ pc = "done"
  /\ inp.AUTORCC /\ inp.AUTOMOC
  /\ rcc.rccFiles = <<"r.qrc">>
  /\ RccBuildFile("r.qrc") \in Range(gen.autogenProvides)
  /\ MocsCompilation \in Range(gen.autogenProvides)
  /\ Len(srcFiles) > 3

====
